---- MODULE Spec2Model ----
(***************************************************************************)
(* Model of the Firebase facade of kinaru-sys-admin                        *)
(* (src/src/firebase/firebaseService.tsx): the auth functions, the         *)
(* document CRUD functions, the query and listener wrappers, the batch and *)
(* transaction wrappers and the uploads, over a model of the Auth /        *)
(* Firestore / Storage backend they call; the UserManagement component of  *)
(* the same file; and the mock users of the fixture module.                *)
(*                                                                         *)
(* JavaScript values are tagged records, strings are sequences of          *)
(* one-character strings, a document is a function from field names to     *)
(* values (an absent field is a field outside its DOMAIN).                 *)
(***************************************************************************)
EXTENDS Integers, Sequences, FiniteSets, TLC

VARIABLES
    store,      \* backend documents: <<collection, id>> -> fields
    now,        \* backend clock: the time of the latest committed write
    lastOp,     \* the latest facade invocation: name, arguments, outcome
    listener,   \* the collection listener registered through listenToCollection
    pages,      \* results of the chained queryCollection calls of one pagination
    upload,     \* the task and promise of uploadFileWithProgress
    lastWrite,  \* the latest committed write: the function called, its document
    screen,     \* the state of the mounted UserManagement component
    docListener, \* the listener of listenToDocument, as the backend holds it
    auth,       \* the backend auth service: its accounts and the signed-in user
    requests,   \* the backend requests sent by the latest auth, transaction or upload call
    files,      \* backend storage: the paths that hold an uploaded object
    mock        \* the mockUsers fixture while its module is evaluated

vars == <<store, now, lastOp, listener, pages, upload, lastWrite, screen, docListener,
          auth, requests, files, mock>>

(***************************************************************************)
(* Bounds of the model.                                                    *)
(***************************************************************************)
MaxTime == 3

MaxCallbacks == 3

(***************************************************************************)
(* JavaScript values.                                                      *)
(***************************************************************************)
Undefined == [t |-> "undefined"]

Null == [t |-> "null"]

Num(n) == [t |-> "number", n |-> n, half |-> FALSE]

NumHalf(n) == [t |-> "number", n |-> n, half |-> TRUE]

StrV(s) == [t |-> "string", s |-> s]

Obj(f) == [t |-> "object", f |-> f]

Arr(items) == [t |-> "array", items |-> items]

Fn == [t |-> "function"]

\* typeof v
TypeOf(v) == IF v.t \in {"null", "object", "array"} THEN "object" ELSE v.t

\* ToBoolean(v): what `!v`, `v && ...` and `if (v)` test
Truthy(v) ==
    CASE v.t \in {"undefined", "null"} -> FALSE
      [] v.t = "number" -> v.n # 0 \/ v.half
      [] v.t = "string" -> Len(v.s) > 0
      [] OTHER -> TRUE

\* the empty function (an object without fields)
NoFields == [k \in {} |-> 0]

\* { ...f, ...g }: the fields of g override those of f
Merge(f, g) ==
    [k \in (DOMAIN f) \cup (DOMAIN g) |-> IF k \in DOMAIN g THEN g[k] ELSE f[k]]

\* the decimal digits of a small index, as a property key
IndexKey(i) == <<CASE i = 0 -> "0" [] i = 1 -> "1" [] OTHER -> "2">>

\* { ...v }: own enumerable properties of v (an array spreads its indices)
Spread(v) ==
    CASE v.t = "object" -> v.f
      [] v.t = "array" ->
           [k \in {IndexKey(i - 1) : i \in 1..Len(v.items)} |->
               LET i == CHOOSE j \in 1..Len(v.items) : IndexKey(j - 1) = k
               IN  v.items[i]]
      [] OTHER -> NoFields

(***************************************************************************)
(* Strings.                                                                *)
(***************************************************************************)
WhiteSpace == {" ", "\t", "\n"}

RECURSIVE TrimStart(_)
TrimStart(s) ==
    IF s # <<>> /\ Head(s) \in WhiteSpace THEN TrimStart(Tail(s)) ELSE s

RECURSIVE TrimEnd(_)
TrimEnd(s) ==
    IF s # <<>> /\ s[Len(s)] \in WhiteSpace
    THEN TrimEnd(SubSeq(s, 1, Len(s) - 1))
    ELSE s

\* String.prototype.trim
Trim(s) == TrimEnd(TrimStart(s))

IsValidStringNoTrim(str) == str.t = "string" /\ Len(str.s) > 0

\* isValidString: typeof str === "string" && str.trim().length > 0
IsValidString(str) == str.t = "string" /\ Len(Trim(str.s)) > 0

\* !data || typeof data !== "object"
IsBadPayload(data) == ~Truthy(data) \/ TypeOf(data) # "object"

(***************************************************************************)
(* Names used by the program.                                              *)
(***************************************************************************)
Users == <<"U", "s", "e", "r", "s">>

createdAt == <<"c", "r", "e", "a", "t", "e", "d", "A", "t">>

updatedAt == <<"u", "p", "d", "a", "t", "e", "d", "A", "t">>

(***************************************************************************)
(* Outcomes of a facade invocation.                                        *)
(***************************************************************************)
NoError == [kind |-> "none", prefix |-> "", msg |-> ""]

\* throw new Error(msg) of an input check
Invalid(msg) == [kind |-> "Error", prefix |-> "", msg |-> msg]

\* throw new Error(`${prefix}${error.message}`) of a catch block
Wrapped(prefix, m) == [kind |-> "Error", prefix |-> prefix, msg |-> m]

\* the backend's own error object, handed on as it is
Raw(m) == [kind |-> "BackendError", prefix |-> "", msg |-> m]

\* what the backend answers to one request
BackendOk == [ok |-> TRUE, msg |-> ""]

BackendFail(m) == [ok |-> FALSE, msg |-> m]

Responses == {BackendOk, BackendFail("unavailable")}

\* the record of a committed write
Wrote(name, key, merge) == [name |-> name, key |-> key, merge |-> merge]

NoWrite == Wrote("none", <<>>, FALSE)

\* the record of an invocation that threw before any backend call
Rejected(name, args, msg) ==
    [name |-> name, args |-> args, outcome |-> "invalid", error |-> Invalid(msg),
     calls |-> 0, failed |-> "", result |-> Null]

\* the record of an invocation whose backend call failed with message m
Failed(name, args, err, m, calls) ==
    [name |-> name, args |-> args, outcome |-> "failed", error |-> err,
     calls |-> calls, failed |-> m, result |-> Null]

\* the record of an invocation that returned result
Returned(name, args, result, calls) ==
    [name |-> name, args |-> args, outcome |-> "ok", error |-> NoError,
     calls |-> calls, failed |-> "", result |-> result]

(***************************************************************************)
(* The Firestore backend: documents, server time, queries.                 *)
(***************************************************************************)
\* doc(db, collectionName, id): the key of a document
DocKey(collectionName, id) == <<collectionName.s, id.s>>

Exists(key) == key \in DOMAIN store

\* serverTimestamp(): resolved by the server when the write commits
ServerTimestamp == now + 1

\* st with the document at key set to fields
PutIn(st, key, fields) ==
    [k \in (DOMAIN st) \cup {key} |-> IF k = key THEN fields ELSE st[k]]

\* st without the document at key
RemoveIn(st, key) == [k \in (DOMAIN st) \ {key} |-> st[k]]

\* setDoc(ref, fields, { merge }): merge keeps the stored fields fields does not name
SetDoc(st, key, fields, merge) ==
    IF merge /\ key \in DOMAIN st
    THEN PutIn(st, key, Merge(st[key], fields))
    ELSE PutIn(st, key, fields)

\* updateDoc(ref, fields): only on an existing document
UpdateDoc(st, key, fields) == PutIn(st, key, Merge(st[key], fields))

\* the ids of the documents of a collection
IdsOf(coll) == {k[2] : k \in {x \in DOMAIN store : x[1] = coll}}

CharCode(c) ==
    CASE c = "\t" -> 9 [] c = "\n" -> 10 [] c = " " -> 32
      [] c = "0" -> 48 [] c = "1" -> 49 [] c = "2" -> 50 [] c = "3" -> 51
      [] c = "4" -> 52 [] c = "5" -> 53 [] c = "6" -> 54 [] c = "7" -> 55
      [] c = "8" -> 56 [] c = "9" -> 57
      [] c = "U" -> 85 [] c = "a" -> 97 [] c = "b" -> 98 [] c = "d" -> 100
      [] c = "e" -> 101 [] c = "i" -> 105 [] c = "r" -> 114 [] c = "s" -> 115
      [] OTHER -> 127

\* the order of document ids: byte-wise lexicographic
RECURSIVE StrLess(_, _)
StrLess(s, t) ==
    IF t = <<>> THEN FALSE
    ELSE IF s = <<>> THEN TRUE
    ELSE IF Head(s) = Head(t) THEN StrLess(Tail(s), Tail(t))
    ELSE CharCode(Head(s)) < CharCode(Head(t))

\* a document snapshot: the id and the fields read
Snapshot(coll, id) == [t |-> "snapshot", id |-> id, data |-> store[<<coll, id>>]]

\* { id: d.id, ...d.data() }
WithId(snap) == Merge((<<"i", "d">> :> StrV(snap.id)), snap.data)

RECURSIVE SeqMap(_, _)
SeqMap(Op(_), s) == IF s = <<>> THEN <<>> ELSE <<Op(Head(s))>> \o SeqMap(Op, Tail(s))

(***************************************************************************)
(* Document CRUD.                                                          *)
(***************************************************************************)
\* { ...data, createdAt: serverTimestamp(), updatedAt: serverTimestamp() }
AddFields(data) ==
    Merge(Spread(data), (createdAt :> ServerTimestamp) @@ (updatedAt :> ServerTimestamp))

AddDocument(collectionName, data, newId, resp) ==
    LET args == [collectionName |-> collectionName, data |-> data]
        key  == DocKey(collectionName, StrV(newId))
    IN  /\ UNCHANGED <<listener, pages, upload>>
        /\ IF ~IsValidString(collectionName)
           THEN /\ lastOp' = Rejected("addDocument", args, "Nom de collection invalide")
                /\ UNCHANGED <<store, now, lastWrite>>
           ELSE IF IsBadPayload(data)
           THEN /\ lastOp' = Rejected("addDocument", args, "Les donnees doivent etre un objet")
                /\ UNCHANGED <<store, now, lastWrite>>
           ELSE IF ~resp.ok
           THEN /\ lastOp' = Failed("addDocument", args,
                                    Wrapped("Echec de l'ajout du document : ", resp.msg),
                                    resp.msg, 1)
                /\ UNCHANGED <<store, now, lastWrite>>
           ELSE /\ ~Exists(key)
                /\ now < MaxTime
                /\ store' = PutIn(store, key, AddFields(data))
                /\ now' = ServerTimestamp
                /\ lastOp' = Returned("addDocument", args, StrV(newId), 1)
                /\ lastWrite' = Wrote("addDocument", key, FALSE)

\* { ...data, updatedAt: serverTimestamp(), createdAt: data.createdAt ?? serverTimestamp() }
SetFields(data) ==
    Merge(Spread(data),
          (updatedAt :> ServerTimestamp)
          @@ (createdAt :> IF createdAt \in DOMAIN Spread(data)
                           THEN Spread(data)[createdAt] ELSE ServerTimestamp))

SetDocument(collectionName, id, data, merge, resp) ==
    LET args == [collectionName |-> collectionName, id |-> id, data |-> data, merge |-> merge]
        key  == DocKey(collectionName, id)
    IN  /\ UNCHANGED <<listener, pages, upload>>
        /\ IF ~IsValidString(collectionName)
           THEN /\ lastOp' = Rejected("setDocument", args, "Nom de collection invalide")
                /\ UNCHANGED <<store, now, lastWrite>>
           ELSE IF ~IsValidString(id)
           THEN /\ lastOp' = Rejected("setDocument", args, "ID de document invalide")
                /\ UNCHANGED <<store, now, lastWrite>>
           ELSE IF IsBadPayload(data)
           THEN /\ lastOp' = Rejected("setDocument", args, "Les donnees doivent etre un objet")
                /\ UNCHANGED <<store, now, lastWrite>>
           ELSE IF ~resp.ok
           THEN /\ lastOp' = Failed("setDocument", args,
                                    Wrapped("Echec de la definition du document : ", resp.msg),
                                    resp.msg, 1)
                /\ UNCHANGED <<store, now, lastWrite>>
           ELSE /\ now < MaxTime
                /\ store' = SetDoc(store, key, SetFields(data), merge)
                /\ now' = ServerTimestamp
                /\ lastOp' = Returned("setDocument", args, id, 1)
                /\ lastWrite' = Wrote("setDocument", key, merge)

GetDocumentById(collectionName, id, resp) ==
    LET args == [collectionName |-> collectionName, id |-> id]
        key  == DocKey(collectionName, id)
    IN  /\ UNCHANGED <<store, now, lastWrite, listener, pages, upload>>
        /\ lastOp' =
             IF ~IsValidString(collectionName)
             THEN Rejected("getDocumentById", args, "Nom de collection invalide")
             ELSE IF ~IsValidString(id)
             THEN Rejected("getDocumentById", args, "ID de document invalide")
             ELSE IF ~resp.ok
             THEN Failed("getDocumentById", args,
                         Wrapped("Echec de la recuperation du document : ", resp.msg),
                         resp.msg, 1)
             ELSE Returned("getDocumentById", args,
                           IF Exists(key) THEN Obj(WithId(Snapshot(key[1], key[2]))) ELSE Null,
                           1)

\* the object updateDocument writes with updatedAt placed before the payload
UpdateFieldsPayloadWins(data) == Merge((updatedAt :> ServerTimestamp), Spread(data))

\* { ...data, updatedAt: serverTimestamp() }
UpdateFields(data) == Merge(Spread(data), (updatedAt :> ServerTimestamp))

UpdateDocument(collectionName, id, data, resp) ==
    LET args == [collectionName |-> collectionName, id |-> id, data |-> data]
        key  == DocKey(collectionName, id)
    IN  /\ UNCHANGED <<listener, pages, upload>>
        /\ IF ~IsValidString(collectionName)
           THEN /\ lastOp' = Rejected("updateDocument", args, "Nom de collection invalide")
                /\ UNCHANGED <<store, now, lastWrite>>
           ELSE IF ~IsValidString(id)
           THEN /\ lastOp' = Rejected("updateDocument", args, "ID de document invalide")
                /\ UNCHANGED <<store, now, lastWrite>>
           ELSE IF IsBadPayload(data)
           THEN /\ lastOp' = Rejected("updateDocument", args, "Les donnees doivent etre un objet")
                /\ UNCHANGED <<store, now, lastWrite>>
           ELSE IF ~Exists(key) \/ ~resp.ok
           THEN /\ lastOp' =
                     LET m == IF resp.ok THEN "not-found" ELSE resp.msg
                     IN  Failed("updateDocument", args,
                                Wrapped("Echec de la mise a jour du document : ", m), m, 1)
                /\ UNCHANGED <<store, now, lastWrite>>
           ELSE /\ now < MaxTime
                /\ store' = UpdateDoc(store, key, UpdateFields(data))
                /\ now' = ServerTimestamp
                /\ lastOp' = Returned("updateDocument", args, id, 1)
                /\ lastWrite' = Wrote("updateDocument", key, FALSE)

DeleteDocumentById(collectionName, id, resp) ==
    LET args == [collectionName |-> collectionName, id |-> id]
        key  == DocKey(collectionName, id)
    IN  /\ UNCHANGED <<now, listener, pages, upload>>
        /\ IF ~IsValidString(collectionName)
           THEN /\ lastOp' = Rejected("deleteDocumentById", args, "Nom de collection invalide")
                /\ UNCHANGED <<store, lastWrite>>
           ELSE IF ~IsValidString(id)
           THEN /\ lastOp' = Rejected("deleteDocumentById", args, "ID de document invalide")
                /\ UNCHANGED <<store, lastWrite>>
           ELSE IF ~resp.ok
           THEN /\ lastOp' = Failed("deleteDocumentById", args,
                                    Wrapped("Echec de la suppression du document : ", resp.msg),
                                    resp.msg, 1)
                /\ UNCHANGED <<store, lastWrite>>
           ELSE /\ store' = RemoveIn(store, key)
                /\ lastOp' = Returned("deleteDocumentById", args, Undefined, 1)
                /\ lastWrite' = Wrote("deleteDocumentById", key, FALSE)

(***************************************************************************)
(* Queries of the backend.                                                 *)
(***************************************************************************)
Asc == StrV(<<"a", "s", "c">>)

Desc == StrV(<<"d", "e", "s", "c">>)

Eq == StrV(<<"=", "=">>)

Lt == StrV(<<"<">>)

Gt == StrV(<<">">>)

KnownOps == {Eq, Lt, Gt}

\* where(field, op, value) on one document's fields
Matches(data, c) ==
    /\ c.field.s \in DOMAIN data
    /\ CASE c.op = Eq -> data[c.field.s] = c.value
         [] c.op = Lt -> data[c.field.s] < c.value
         [] c.op = Gt -> data[c.field.s] > c.value
         [] OTHER -> FALSE

\* a query the backend accepts: named fields, known operators and directions
WellFormed(conditions, orders) ==
    /\ \A i \in 1..Len(conditions) :
          /\ conditions[i].field.t = "string" /\ conditions[i].field.s # <<>>
          /\ conditions[i].op \in KnownOps
    /\ \A i \in 1..Len(orders) :
          /\ orders[i].field.t = "string" /\ orders[i].field.s # <<>>
          /\ orders[i].direction \in {Asc, Desc}

\* the orderBy clauses in force: an inequality filter orders by its field
EffectiveOrders(conditions, orders) ==
    IF orders # <<>> THEN orders
    ELSE LET ineq == {i \in 1..Len(conditions) : conditions[i].op \in {Lt, Gt}}
         IN  IF ineq = {} THEN <<>>
             ELSE LET i == CHOOSE j \in ineq : \A k \in ineq : j <= k
                  IN  <<[field |-> conditions[i].field, direction |-> Asc]>>

\* -1, 0, 1: the order of two snapshots by the orderBy clauses
RECURSIVE CmpBy(_, _, _)
CmpBy(orders, x, y) ==
    IF orders = <<>> THEN 0
    ELSE LET f  == Head(orders).field.s
             vx == x.data[f]
             vy == y.data[f]
         IN  IF vx = vy THEN CmpBy(Tail(orders), x, y)
             ELSE IF (vx < vy) = (Head(orders).direction = Asc) THEN 0 - 1 ELSE 1

\* x comes strictly before y: the orderBy clauses, then the document id
Before(orders, x, y) ==
    LET c == CmpBy(orders, x, y)
        idAsc == orders = <<>> \/ orders[Len(orders)].direction = Asc
    IN  \/ c < 0
        \/ c = 0 /\ IF idAsc THEN StrLess(x.id, y.id) ELSE StrLess(y.id, x.id)

RECURSIVE SortBy(_, _)
SortBy(orders, S) ==
    IF S = {} THEN <<>>
    ELSE LET m == CHOOSE x \in S : \A y \in S \ {x} : Before(orders, x, y)
         IN  <<m>> \o SortBy(orders, S \ {m})

\* the first n elements (all of them when n = 0: no limit)
Limit(s, n) == IF n = 0 \/ Len(s) <= n THEN s ELSE SubSeq(s, 1, n)

\* startAt(cursor): the snapshots from the cursor on, the cursor included
StartAtCursor(orders, snaps, cursor) ==
    IF cursor.t # "snapshot" THEN snaps
    ELSE {x \in snaps : x = cursor \/ Before(orders, cursor, x)}

\* startAfter(cursor): the snapshots strictly after the cursor
StartAfter(orders, snaps, cursor) ==
    IF cursor.t # "snapshot" THEN snaps
    ELSE {x \in snaps : Before(orders, cursor, x)}

\* getDocs / onSnapshot of where..., orderBy..., limit(n), startAfter(cursor)
RunQuery(coll, conditions, orders, n, cursor) ==
    LET eff   == EffectiveOrders(conditions, orders)
        snaps == {Snapshot(coll, id) : id \in IdsOf(coll)}
        hits  == {x \in snaps :
                    /\ \A i \in 1..Len(conditions) : Matches(x.data, conditions[i])
                    /\ \A i \in 1..Len(eff) : eff[i].field.s \in DOMAIN x.data}
        usable == IF cursor.t = "snapshot"
                  THEN \A i \in 1..Len(eff) : eff[i].field.s \in DOMAIN cursor.data
                  ELSE TRUE
    IN  IF usable THEN Limit(SortBy(eff, StartAfter(eff, hits, cursor)), n) ELSE <<>>

\* orderBy(o.field, o.direction || "asc")
OrderClause(o) ==
    [field |-> o.field, direction |-> IF Truthy(o.direction) THEN o.direction ELSE Asc]

\* limit(pageSize) under `if (pageSize)`
LimitOf(pageSize) == IF Truthy(pageSize) THEN pageSize.n ELSE 0

\* pageSize && (!Number.isInteger(pageSize) || pageSize <= 0)
IsBadPageSize(pageSize) ==
    /\ Truthy(pageSize)
    /\ \/ pageSize.t # "number"
       \/ pageSize.half
       \/ pageSize.n < 0
       \/ pageSize.n = 0 /\ ~pageSize.half

\* conditions.some((c) => !isValidString(c.field) || !isValidString(c.op))
HasBadCondition(conditions) ==
    \E i \in 1..Len(conditions) :
        ~IsValidString(conditions[i].field) \/ ~IsValidString(conditions[i].op)

\* orders.some((o) => !isValidString(o.field) || !["asc", "desc"].includes(o.direction))
HasBadOrder(orders) ==
    \E i \in 1..Len(orders) :
        ~IsValidString(orders[i].field) \/ orders[i].direction \notin {Asc, Desc}

\* snapshot.docs.map((d) => ({ id: d.id, ...d.data() }))
DocsOf(snaps) == [i \in 1..Len(snaps) |-> WithId(snaps[i])]

GetCollection(collectionName, resp) ==
    LET args == [collectionName |-> collectionName]
    IN  /\ UNCHANGED <<store, now, lastWrite, listener, pages, upload>>
        /\ lastOp' =
             IF ~IsValidString(collectionName)
             THEN Rejected("getCollection", args, "Nom de collection invalide")
             ELSE IF ~resp.ok
             THEN Failed("getCollection", args,
                         Wrapped("Echec de la recuperation de la collection : ", resp.msg),
                         resp.msg, 1)
             ELSE Returned("getCollection", args,
                           DocsOf(RunQuery(collectionName.s, <<>>, <<>>, 0, Null)), 1)

(***************************************************************************)
(* queryCollection.                                                        *)
(***************************************************************************)
\* the cursor taken from the first document of the page
FirstVisible(snaps) == IF snaps = <<>> THEN Null ELSE snaps[1]

\* snap.docs[snap.docs.length - 1] || null
LastVisible(snaps) == IF snaps = <<>> THEN Null ELSE snaps[Len(snaps)]

\* the options of a call without its cursor
BaseOf(options) == [options EXCEPT !.startAfterDoc = Undefined]

\* the chain of pages after a call that returned result
Paged(options, result) ==
    IF /\ Truthy(options.startAfterDoc)
       /\ pages.results # <<>>
       /\ pages.options = BaseOf(options)
       /\ options.startAfterDoc = pages.results[Len(pages.results)].lastVisible
    THEN [pages EXCEPT !.results = Append(@, result)]
    ELSE [options |-> BaseOf(options), results |-> <<result>>]

QueryCollection(options, resp) ==
    LET collectionName == options.collectionName
        conditions     == options.conditions
        orders         == options.orders
        pageSize       == options.pageSize
        startAfterDoc  == options.startAfterDoc
        clauses        == SeqMap(OrderClause, orders)
        cursor         == IF Truthy(startAfterDoc) THEN startAfterDoc ELSE Null
        snaps          == RunQuery(collectionName.s, conditions, clauses,
                                   LimitOf(pageSize), cursor)
        result         == [data |-> DocsOf(snaps),
                           lastVisible |-> LastVisible(snaps)]
    IN  /\ UNCHANGED <<store, now, lastWrite, listener, upload>>
        /\ IF ~IsValidString(collectionName)
           THEN /\ lastOp' = Rejected("queryCollection", options, "Nom de collection invalide")
                /\ UNCHANGED pages
           ELSE IF IsBadPageSize(pageSize)
           THEN /\ lastOp' = Rejected("queryCollection", options, "Taille de page invalide")
                /\ UNCHANGED pages
           ELSE IF HasBadCondition(conditions)
           THEN /\ lastOp' = Rejected("queryCollection", options,
                                      "Conditions de requete invalides")
                /\ UNCHANGED pages
           ELSE IF HasBadOrder(orders)
           THEN /\ lastOp' = Rejected("queryCollection", options, "Conditions de tri invalides")
                /\ UNCHANGED pages
           ELSE IF ~WellFormed(conditions, clauses) \/ ~resp.ok
           THEN /\ lastOp' =
                     LET m == IF resp.ok THEN "invalid-argument" ELSE resp.msg
                     IN  Failed("queryCollection", options,
                                Wrapped("Echec de la requete de collection : ", m), m, 1)
                /\ UNCHANGED pages
           ELSE /\ lastOp' = Returned("queryCollection", options, result, 1)
                /\ pages' = Paged(options, result)

(***************************************************************************)
(* Listeners.                                                              *)
(***************************************************************************)
NoListener ==
    [state |-> "none", kind |-> "none", collectionName |-> <<>>, id |-> <<>>,
     conditions |-> <<>>, orders |-> <<>>, limit |-> 0, onError |-> FALSE,
     fired |-> FALSE, docs |-> <<>>, callbacks |-> 0, error |-> NoError,
     unsubscribed |-> FALSE]

\* onSnapshot(q, next, error): the listener the backend holds from now on
Registered(kind, collectionName, id, conditions, orders, limit, onError) ==
    [NoListener EXCEPT !.state = "active", !.kind = kind,
                       !.collectionName = collectionName, !.id = id,
                       !.conditions = conditions, !.orders = orders,
                       !.limit = limit, !.onError = onError]

\* what the callback would receive if a missing document were handed over as an
\* object carrying its id alone, without the docSnap.exists() test
WatchedWithoutExists(l) ==
    IF l.kind = "collection"
    THEN DocsOf(RunQuery(l.collectionName, l.conditions, l.orders, l.limit, Null))
    ELSE IF Exists(<<l.collectionName, l.id>>)
         THEN Obj(WithId(Snapshot(l.collectionName, l.id)))
         ELSE Obj((<<"i", "d">> :> StrV(l.id)))

\* what the callback would receive if a document listener watched the document of
\* its identifier in Users, whatever its own collection
WatchedInUsers(l) ==
    IF l.kind = "collection"
    THEN DocsOf(RunQuery(l.collectionName, l.conditions, l.orders, l.limit, Null))
    ELSE IF Exists(<<Users, l.id>>)
         THEN Obj(WithId(Snapshot(Users, l.id)))
         ELSE Null

\* what the listener's callback is to receive now: the documents of its query,
\* or docSnap.exists() ? { id: docSnap.id, ...docSnap.data() } : null
Watched(l) ==
    IF l.kind = "collection"
    THEN DocsOf(RunQuery(l.collectionName, l.conditions, l.orders, l.limit, Null))
    ELSE IF Exists(<<l.collectionName, l.id>>)
         THEN Obj(WithId(Snapshot(l.collectionName, l.id)))
         ELSE Null

\* the one option listenToCollection checks: the page size
ListenChecks(options) == IsBadPageSize(options.pageSize)

ListenToCollection(collectionName, options, callback, errorCallback, sdkThrows) ==
    LET args    == [collectionName |-> collectionName, options |-> options,
                    callback |-> callback, errorCallback |-> errorCallback]
        clauses == SeqMap(OrderClause, options.orders)
    IN  /\ UNCHANGED <<store, now, lastWrite, pages, upload>>
        /\ IF ~IsValidString(collectionName)
           THEN /\ lastOp' = Rejected("listenToCollection", args, "Nom de collection invalide")
                /\ UNCHANGED listener
           ELSE IF TypeOf(callback) # "function"
           THEN /\ lastOp' = Rejected("listenToCollection", args,
                                      "Le callback doit etre une fonction")
                /\ UNCHANGED listener
           ELSE IF ListenChecks(options)
           THEN /\ lastOp' = Rejected("listenToCollection", args, "Taille de page invalide")
                /\ UNCHANGED listener
           ELSE IF ~WellFormed(options.conditions, clauses) /\ sdkThrows
           THEN \* where / orderBy / query of the SDK refuses the clause: its own
                \* error leaves listenToCollection as it is, outside any try
                /\ lastOp' = [name |-> "listenToCollection", args |-> args,
                              outcome |-> "threw", error |-> Raw("invalid-argument"),
                              calls |-> 0, failed |-> "", result |-> Null]
                /\ UNCHANGED listener
           ELSE /\ listener.state # "active"
                /\ lastOp' = Returned("listenToCollection", args, Fn, 1)
                /\ listener' = Registered("collection", collectionName.s, <<>>,
                                          options.conditions, clauses,
                                          LimitOf(options.pageSize),
                                          TypeOf(errorCallback) = "function")

ListenToDocument(collectionName, id, callback, errorCallback) ==
    LET args == [collectionName |-> collectionName, id |-> id,
                 callback |-> callback, errorCallback |-> errorCallback]
    IN  /\ UNCHANGED <<store, now, lastWrite, listener, pages, upload>>
        /\ IF ~IsValidString(collectionName)
           THEN /\ lastOp' = Rejected("listenToDocument", args, "Nom de collection invalide")
                /\ UNCHANGED docListener
           ELSE IF ~IsValidString(id)
           THEN /\ lastOp' = Rejected("listenToDocument", args, "ID de document invalide")
                /\ UNCHANGED docListener
           ELSE IF TypeOf(callback) # "function"
           THEN /\ lastOp' = Rejected("listenToDocument", args,
                                      "Le callback doit etre une fonction")
                /\ UNCHANGED docListener
           ELSE /\ docListener.state # "active"
                /\ lastOp' = Returned("listenToDocument", args, Fn, 1)
                /\ docListener' = Registered("document", collectionName.s, id.s, <<>>, <<>>, 0,
                                          TypeOf(errorCallback) = "function")

\* the function onSnapshot returned, which the facade hands to its caller
Detach(l) == [l EXCEPT !.state = "stopped", !.unsubscribed = TRUE]

\* the caller calls the unsubscribe function it was given
Unsubscribe ==
    /\ listener.state = "active"
    /\ listener' = Detach(listener)
    /\ UNCHANGED <<store, now, lastWrite, lastOp, pages, upload>>

\* the snapshot handed to the callback, cut to the documents the listener had
DeliveredStale(l) == IF l.fired THEN l.docs ELSE Watched(l)

\* the snapshot handed to the callback: the full current result
Delivered(l) == Watched(l)

\* the backend delivers a snapshot: callback(docs)
DeliverSnapshot ==
    /\ listener.state = "active"
    /\ WellFormed(listener.conditions, listener.orders)
    /\ ~listener.fired \/ Watched(listener) # listener.docs
    /\ listener.callbacks < MaxCallbacks
    /\ listener' = [listener EXCEPT !.fired = TRUE, !.docs = Delivered(listener),
                                    !.callbacks = @ + 1]
    /\ UNCHANGED <<store, now, lastWrite, lastOp, pages, upload>>

\* the backend ends the listener with an error:
\* errorCallback?.(new Error(`Echec de l'ecoute ... : ${error.message}`))
ListenerError(m) ==
    /\ listener.state = "active"
    /\ listener' =
         [listener EXCEPT
            !.state = "failed",
            !.error = IF ~listener.onError THEN NoError
                      ELSE IF listener.kind = "collection"
                      THEN Wrapped("Echec de l'ecoute de la collection : ", m)
                      ELSE Wrapped("Echec de l'ecoute du document : ", m)]
    /\ UNCHANGED <<store, now, lastWrite, lastOp, pages, upload>>

\* the caller calls the unsubscribe function listenToDocument gave it
UnsubscribeDocument ==
    /\ docListener.state = "active"
    /\ docListener' = Detach(docListener)
    /\ UNCHANGED <<store, now, lastWrite, lastOp, listener, pages, upload>>

\* the backend delivers a document snapshot: callback(doc or null)
DeliverDocument ==
    /\ docListener.state = "active"
    /\ ~docListener.fired \/ Watched(docListener) # docListener.docs
    /\ docListener.callbacks < MaxCallbacks
    /\ docListener' = [docListener EXCEPT !.fired = TRUE, !.docs = Delivered(docListener),
                                          !.callbacks = @ + 1]
    /\ UNCHANGED <<store, now, lastWrite, lastOp, listener, pages, upload>>

\* the backend ends the document listener with an error:
\* errorCallback?.(new Error(`Echec de l'ecoute du document : ${error.message}`))
DocumentListenerError(m) ==
    /\ docListener.state = "active"
    /\ docListener' =
         [docListener EXCEPT
            !.state = "failed",
            !.error = IF ~docListener.onError THEN NoError
                      ELSE Wrapped("Echec de l'ecoute du document : ", m)]
    /\ UNCHANGED <<store, now, lastWrite, lastOp, listener, pages, upload>>

(***************************************************************************)
(* runBatch.                                                               *)
(***************************************************************************)
BatchTypes == {StrV(<<"s", "e", "t">>), StrV(<<"u", "p", "d", "a", "t", "e">>),
               StrV(<<"d", "e", "l", "e", "t", "e">>)}

TypeSet == StrV(<<"s", "e", "t">>)

TypeUpdate == StrV(<<"u", "p", "d", "a", "t", "e">>)

TypeDelete == StrV(<<"d", "e", "l", "e", "t", "e">>)

\* what the forEach callback throws on op ("" when it stages op)
OpError(op) ==
    IF op.type \notin BatchTypes THEN "Type d'operation invalide"
    ELSE IF op.type = TypeSet /\ IsBadPayload(op.data)
    THEN "Les donnees doivent etre un objet pour set"
    ELSE IF op.type = TypeUpdate /\ IsBadPayload(op.data)
    THEN "Les donnees doivent etre un objet pour update"
    ELSE ""

\* batch.set / batch.update of the SDK refuse data that is a list
SdkRefuses(op) == op.type \in {TypeSet, TypeUpdate} /\ op.data.t = "array"

\* the first operation of the list that stops the forEach, 0 when none does
FirstStop(operations) ==
    LET bad == {i \in 1..Len(operations) :
                  OpError(operations[i]) # "" \/ SdkRefuses(operations[i])}
    IN  IF bad = {} THEN 0 ELSE CHOOSE i \in bad : \A j \in bad : i <= j

\* the writes staged in the batch when the forEach ends
Staged(operations) ==
    LET n == FirstStop(operations)
    IN  IF n = 0 THEN operations ELSE SubSeq(operations, 1, n - 1)

\* commit is reached unless the first operation stops the forEach
ReachesCommitUnlessFirst(operations) == FirstStop(operations) # 1

\* the forEach has run to its end without a throw, so commit is called
ReachesCommit(operations) == FirstStop(operations) = 0

\* one staged write applied to st, every set staged with { merge: true }
ApplyOpAlwaysMerge(st, op) ==
    CASE op.type = TypeSet -> SetDoc(st, op.ref, Spread(op.data), TRUE)
      [] op.type = TypeUpdate -> UpdateDoc(st, op.ref, Spread(op.data))
      [] OTHER -> RemoveIn(st, op.ref)

\* one staged write applied to st
ApplyOp(st, op) ==
    CASE op.type = TypeSet -> SetDoc(st, op.ref, Spread(op.data), Truthy(op.merge))
      [] op.type = TypeUpdate -> UpdateDoc(st, op.ref, Spread(op.data))
      [] OTHER -> RemoveIn(st, op.ref)

\* the backend accepts the staged writes: every update finds its document
RECURSIVE Commits(_, _)
Commits(st, staged) ==
    IF staged = <<>> THEN TRUE
    ELSE IF Head(staged).type = TypeUpdate /\ Head(staged).ref \notin DOMAIN st THEN FALSE
    ELSE Commits(ApplyOp(st, Head(staged)), Tail(staged))

\* the store after the staged writes, applied in order
RECURSIVE Commit(_, _)
Commit(st, staged) ==
    IF staged = <<>> THEN st ELSE Commit(ApplyOp(st, Head(staged)), Tail(staged))

RunBatch(operations, resp) ==
    LET n      == FirstStop(operations.items)
        staged == Staged(operations.items)
    IN  /\ UNCHANGED <<now, listener, pages, upload>>
        /\ IF operations.t # "array" \/ Len(operations.items) = 0
           THEN /\ lastOp' = Rejected("runBatch", operations,
                                      "Les operations doivent etre un tableau non vide")
                /\ UNCHANGED <<store, lastWrite>>
           ELSE IF ~ReachesCommit(operations.items)
           THEN /\ lastOp' =
                     IF OpError(operations.items[n]) # ""
                     THEN Rejected("runBatch", operations, OpError(operations.items[n]))
                     ELSE [name |-> "runBatch", args |-> operations, outcome |-> "threw",
                           error |-> Raw("invalid-argument"), calls |-> 0,
                           failed |-> "", result |-> Null]
                /\ UNCHANGED <<store, lastWrite>>
           ELSE IF ~resp.ok \/ ~Commits(store, staged)
           THEN /\ lastOp' =
                     LET m == IF resp.ok THEN "not-found" ELSE resp.msg
                     IN  Failed("runBatch", operations,
                                Wrapped("Echec de l'operation de lot : ", m), m, 1)
                /\ UNCHANGED <<store, lastWrite>>
           ELSE /\ lastOp' = Returned("runBatch", operations, Undefined, 1)
                /\ lastWrite' = Wrote("runBatch", <<>>, FALSE)
                /\ store' = Commit(store, staged)

(***************************************************************************)
(* uploadFileWithProgress.                                                 *)
(***************************************************************************)
NoUpload ==
    [state |-> "none", promise |-> "none", error |-> NoError, uncaught |-> NoError,
     failed |-> "", onProgress |-> FALSE, progress |-> 0, url |-> FALSE, path |-> <<>>,
     total |-> 0, event |-> Null, notified |-> 0, notice |-> Null]

\* fileOrBlob instanceof File || fileOrBlob instanceof Blob
IsFileOrBlob(v) == v.t \in {"file", "blob"}

UploadFileWithProgress(path, fileOrBlob, onProgress) ==
    LET args == [path |-> path, fileOrBlob |-> fileOrBlob, onProgress |-> onProgress]
    IN  /\ upload.state # "running"
        /\ UNCHANGED <<store, now, lastWrite, listener, pages>>
        /\ IF ~IsValidString(path)
           THEN /\ lastOp' = Rejected("uploadFileWithProgress", args,
                                      "Chemin de stockage invalide")
                /\ UNCHANGED upload
           ELSE IF ~IsFileOrBlob(fileOrBlob)
           THEN /\ lastOp' = Rejected("uploadFileWithProgress", args,
                                      "Un fichier ou Blob est requis")
                /\ UNCHANGED upload
           ELSE IF Truthy(onProgress) /\ TypeOf(onProgress) # "function"
           THEN /\ lastOp' = Rejected("uploadFileWithProgress", args,
                                      "onProgress doit etre une fonction")
                /\ UNCHANGED upload
           ELSE /\ lastOp' = Returned("uploadFileWithProgress", args, Fn, 1)
                /\ upload' = [NoUpload EXCEPT !.state = "running", !.promise = "pending",
                                              !.onProgress = Truthy(onProgress),
                                              !.path = path.s,
                                              !.total = fileOrBlob.size]

\* the snapshot of a state_changed event of the running task
TaskSnapshot(u, bytes) ==
    [state |-> "running", bytesTransferred |-> bytes, totalBytes |-> u.total]

\* the object the first observer hands to onProgress
Progress(snapshot) ==
    [progress |-> (snapshot.bytesTransferred * 100) \div snapshot.totalBytes,
     state |-> snapshot.state,
     transferred |-> snapshot.bytesTransferred,
     total |-> snapshot.totalBytes]

\* the first observer, were it to call onProgress for the first event only
ObservedFirstOnly(u, snapshot) ==
    IF u.onProgress /\ u.notified = 0
    THEN [u EXCEPT !.notified = @ + 1, !.notice = Progress(snapshot)]
    ELSE u

\* the first observer of the task: if (onProgress) onProgress({ ... })
Observed(u, snapshot) ==
    IF u.onProgress
    THEN [u EXCEPT !.notified = @ + 1, !.notice = Progress(snapshot)]
    ELSE u

\* a state_changed event of the running task, bytes of the file transferred
UploadStateChanged(bytes) ==
    /\ upload.state = "running"
    /\ upload.progress < MaxCallbacks
    /\ bytes \in 0..upload.total
    /\ upload' = Observed([upload EXCEPT !.progress = @ + 1,
                                         !.event = TaskSnapshot(upload, bytes)],
                          TaskSnapshot(upload, bytes))
    /\ UNCHANGED <<store, now, lastWrite, lastOp, listener, pages>>

\* what the promise's observer does with the task's error: reject(error)
RejectWith(m) == Raw(m)

\* the task fails: the first observer throws inside its handler, the second rejects
UploadError(m) ==
    /\ upload.state = "running"
    /\ upload' = [upload EXCEPT
                    !.state = "error", !.promise = "rejected", !.failed = m,
                    !.uncaught = Wrapped("Echec de la progression du telechargement : ", m),
                    !.error = RejectWith(m)]
    /\ UNCHANGED <<store, now, lastWrite, lastOp, listener, pages>>

\* the task completes: the promise's observer asks for the download URL
UploadComplete ==
    /\ upload.state = "running"
    /\ upload' = [upload EXCEPT !.state = "success"]
    /\ files' = files \cup {upload.path}
    /\ UNCHANGED <<store, now, lastWrite, lastOp, listener, pages>>

\* getDownloadURL(task.snapshot.ref) answers
DownloadURLAnswer(resp) ==
    /\ upload.state = "success"
    /\ upload.promise = "pending"
    /\ upload' = IF resp.ok
                 THEN [upload EXCEPT !.promise = "resolved", !.url = TRUE]
                 ELSE [upload EXCEPT
                         !.promise = "rejected", !.failed = resp.msg,
                         !.error = Wrapped("Echec de la recuperation de l'URL : ", resp.msg)]
    /\ UNCHANGED <<store, now, lastWrite, lastOp, listener, pages>>

(***************************************************************************)
(* The inputs the callers draw from.                                       *)
(***************************************************************************)
FieldA == <<"a">>

FieldB == <<"b">>

Digit(i) ==
    CASE i = 0 -> "0" [] i = 1 -> "1" [] i = 2 -> "2" [] i = 3 -> "3" [] i = 4 -> "4"
      [] i = 5 -> "5" [] i = 6 -> "6" [] i = 7 -> "7" [] i = 8 -> "8" [] OTHER -> "9"

\* the id of the i-th document the callers use
DocId(i) == <<"d", Digit(i)>>

Doc1 == DocId(1)

Doc2 == DocId(2)

UsersName == StrV(Users)

Blanks == {<<>>, <<" ">>, <<" ", "\t">>}

BlankStrings == {StrV(s) : s \in Blanks}

PlainObject == Obj((FieldA :> 1))

Callbacks == {Fn, Undefined}

NoPages == [options |-> Undefined, results |-> <<>>]

NoOp == [name |-> "none", args |-> Undefined, outcome |-> "none", error |-> NoError,
         calls |-> 0, failed |-> "", result |-> Null]

NoStore == [k \in {} |-> NoFields]

\* UserManagement before it is mounted: useState initial values, no handler running
NoScreen ==
    [mounted |-> FALSE, loading |-> TRUE, error |-> "", users |-> <<>>,
     actionLoading |-> Null, editUser |-> Null, showAddModal |-> FALSE,
     newUser |-> [email |-> <<>>, statut |-> 1], loaded |-> FALSE, running |-> {}]

\* mockUsers as its array literal leaves it: the user 1, the loop not yet entered.
\* Of the users in the array the model keeps the uid of each, and the whole of
\* the one pushed last. mockProperties as its array literal leaves it: the
\* properties 1 and 2, both of owner 2. Of the properties the model keeps the id
\* of each; of the transactions, contracts and messages, how many there are; and
\* of the record pushed last on any of these arrays (record), its references.
HandWritten ==
    [uids |-> << <<"1">> >>,
     pushed |-> [uid |-> <<"1">>, etat |-> 1, statut |-> 1, typeUsersId |-> 1],
     i |-> 2, loaded |-> FALSE,
     properties |-> << <<"1">>, <<"2">> >>,
     loop |-> "properties", j |-> 3,
     pushes |-> [transactions |-> 0, contracts |-> 0, messages |-> 0],
     record |-> [of |-> "properties", id |-> <<"2">>, ownerId |-> <<"2">>]]

\* the auth service with no account and nobody signed in
NoAuth == [accounts |-> [e \in {} |-> Null], currentUser |-> Null]

(***************************************************************************)
(* Spec: the document CRUD functions and runBatch on the document d1 of    *)
(* Users, called with every kind of payload.                               *)
(***************************************************************************)
\* the step involves neither the UserManagement component nor the document
\* listener nor the auth service nor the storage
Apart == UNCHANGED <<screen, docListener, auth, requests, files, mock>>

\* no call is waiting for its caller
Idle == lastOp.name = "none"

\* the caller has taken the outcome of its call (await, or the catch around it)
Settle ==
    /\ ~Idle
    /\ lastOp' = NoOp
    /\ UNCHANGED <<store, now, lastWrite, listener, pages, upload>>

SmallPayloads ==
    {Obj((FieldA :> 1) @@ (FieldB :> 1)),
     Obj((FieldA :> 2)),
     Obj((FieldA :> 2) @@ (createdAt :> 1) @@ (updatedAt :> 1)),
     Undefined, Null, Num(0), Num(5), StrV(<<"a">>), Arr(<<7>>)}

\* <<collectionName, data>>
AddCalls ==
    ({UsersName} \X SmallPayloads) \cup (BlankStrings \X {PlainObject})

\* <<collectionName, id, data>>
WriteCalls ==
    ({UsersName} \X {StrV(Doc1)} \X SmallPayloads)
    \cup (BlankStrings \X {StrV(Doc1)} \X {PlainObject})
    \cup ({UsersName} \X BlankStrings \X {PlainObject})

\* <<collectionName, id>>
KeyCalls ==
    ({UsersName} \X {StrV(Doc1)})
    \cup (BlankStrings \X {StrV(Doc1)})
    \cup ({UsersName} \X BlankStrings)

True == [t |-> "boolean", b |-> TRUE]

SetOp(id, data, merge) ==
    [type |-> TypeSet, ref |-> <<Users, id>>, data |-> data, merge |-> merge]

UpdateOp(id, data) ==
    [type |-> TypeUpdate, ref |-> <<Users, id>>, data |-> data, merge |-> Undefined]

DeleteOp(id) ==
    [type |-> TypeDelete, ref |-> <<Users, id>>, data |-> Undefined, merge |-> Undefined]

\* an operation whose type is none of set, update, delete
OtherOp(id) ==
    [type |-> StrV(<<"a", "d", "d">>), ref |-> <<Users, id>>, data |-> PlainObject,
     merge |-> Undefined]

GoodOps ==
    {SetOp(Doc1, PlainObject, Undefined), SetOp(Doc2, Obj((FieldB :> 1)), True),
     SetOp(Doc1, Obj((FieldB :> 1)), True),
     UpdateOp(Doc1, Obj((FieldA :> 2))), DeleteOp(Doc2)}

BadOps == {SetOp(Doc1, Null, Undefined), UpdateOp(Doc2, Num(5)), OtherOp(Doc2)}

RECURSIVE SeqsOver(_, _)
SeqsOver(S, n) ==
    IF n = 0 THEN {<<>>}
    ELSE LET shorter == SeqsOver(S, n - 1)
         IN  shorter \cup {Append(q, x) : q \in {r \in shorter : Len(r) = n - 1}, x \in S}

MaxBatch == 2

\* the lists runBatch is called with: at most one bad operation, at any place
BatchLists ==
    {Null, Arr(<<>>), Arr(<<SetOp(Doc1, Arr(<<7>>), Undefined)>>)}
    \cup {Arr(q) : q \in {r \in SeqsOver(GoodOps \cup BadOps, MaxBatch) :
                            /\ r # <<>>
                            /\ Cardinality({i \in 1..Len(r) : r[i] \in BadOps}) <= 1}}

Init ==
    /\ store = NoStore
    /\ now = 1
    /\ lastOp = NoOp
    /\ listener = NoListener
    /\ pages = NoPages
    /\ upload = NoUpload
    /\ lastWrite = NoWrite
    /\ screen = NoScreen
    /\ docListener = NoListener
    /\ auth = NoAuth
    /\ requests = <<>>
    /\ files = {}
    /\ mock = HandWritten

Next ==
    \/ Idle /\ \E x \in AddCalls, r \in Responses : AddDocument(x[1], x[2], Doc1, r)
          /\ Apart
    \/ Idle /\ \E x \in WriteCalls, m \in BOOLEAN, r \in Responses :
                  SetDocument(x[1], x[2], x[3], m, r) /\ Apart
    \/ Idle /\ \E x \in KeyCalls, r \in Responses : GetDocumentById(x[1], x[2], r)
          /\ Apart
    \/ Idle /\ \E c \in {UsersName} \cup BlankStrings, r \in Responses : GetCollection(c, r)
          /\ Apart
    \/ Idle /\ \E x \in WriteCalls, r \in Responses : UpdateDocument(x[1], x[2], x[3], r)
          /\ Apart
    \/ Idle /\ \E x \in KeyCalls, r \in Responses : DeleteDocumentById(x[1], x[2], r)
          /\ Apart
    \/ Idle /\ \E ops \in BatchLists, r \in Responses : RunBatch(ops, r) /\ Apart
    \/ Settle /\ Apart

Spec == Init /\ [][Next]_vars

(***************************************************************************)
(* Properties of the CRUD functions and of runBatch, checked under Spec.   *)
(***************************************************************************)
\* a string of white space only (the empty string included)
Blank(v) == v.t = "string" /\ \A i \in 1..Len(v.s) : v.s[i] \in {" ", "\t", "\n"}

\* a payload that is no keyed structure: null, undefined, a primitive, a list
NotKeyed(v) == v.t # "object"

\* the latest call threw its own input error and asked nothing of the backend
RejectedEarly == lastOp.outcome = "invalid" /\ lastOp.calls = 0

\* the document the latest addDocument, setDocument or updateDocument wrote
WrittenKey(op) ==
    IF op.name = "addDocument"
    THEN <<op.args.collectionName.s, op.result.s>>
    ELSE <<op.args.collectionName.s, op.args.id.s>>

StampedWrite(op) ==
    op.outcome = "ok" /\ op.name \in {"addDocument", "setDocument", "updateDocument"}

\* C1: a successful setDocument with merge = true that follows a successful
\* setDocument with merge = true on the same collection and identifier, and whose
\* payload has no createdAt, leaves the stored createdAt as the first call wrote
\* it and changes only updatedAt and the fields of its payload.
C1_MergeKeepsCreatedAt ==
    [][ (/\ Idle
         /\ lastOp'.name = "setDocument" /\ lastOp'.outcome = "ok"
         /\ lastOp'.args.merge
         /\ createdAt \notin DOMAIN Spread(lastOp'.args.data)
         /\ lastWrite = Wrote("setDocument", WrittenKey(lastOp'), TRUE))
        => LET key == WrittenKey(lastOp')
           IN  \A f \in (DOMAIN store[key]) \ ({updatedAt} \cup DOMAIN Spread(lastOp'.args.data)) :
                  f \in DOMAIN store'[key] /\ store'[key][f] = store[key][f]
      ]_vars

\* the list holds an operation runBatch has to refuse
HasBadOperation(items) ==
    \E i \in 1..Len(items) :
        \/ items[i].type \notin {TypeSet, TypeUpdate, TypeDelete}
        \/ items[i].type \in {TypeSet, TypeUpdate} /\ NotKeyed(items[i].data)

\* C4: runBatch on a list holding an operation of another type than set, update
\* or delete, or a set or update whose data is no object, wherever it stands in
\* the list, fails without calling commit and writes nothing.
C4_BadBatchCommitsNothing ==
    [][ (/\ lastOp'.name = "runBatch" /\ Idle
         /\ lastOp'.args.t = "array"
         /\ HasBadOperation(lastOp'.args.items))
        => /\ lastOp'.outcome \in {"invalid", "threw"}
           /\ lastOp'.calls = 0
           /\ store' = store
      ]_vars

\* a valid set followed by an operation of unrecognized type was refused
C4_Witness ==
    /\ lastOp.name = "runBatch" /\ lastOp.outcome = "invalid" /\ lastOp.calls = 0
    /\ lastOp.args.t = "array" /\ Len(lastOp.args.items) = 2
    /\ lastOp.args.items[1] = SetOp(Doc1, PlainObject, Undefined)
    /\ lastOp.args.items[2].type \notin {TypeSet, TypeUpdate, TypeDelete}

\* C9: setDocument and updateDocument refuse a blank identifier and a payload
\* that is no keyed structure (null, undefined, a primitive, a list) before any
\* backend call; addDocument refuses such a payload; getDocumentById and
\* deleteDocumentById refuse a blank identifier.
C9_BadIdOrPayloadRefused ==
    /\ (/\ lastOp.name \in {"setDocument", "updateDocument"}
        /\ Blank(lastOp.args.id) \/ NotKeyed(lastOp.args.data)) => RejectedEarly
    /\ (lastOp.name = "addDocument" /\ NotKeyed(lastOp.args.data)) => RejectedEarly
    /\ (/\ lastOp.name \in {"getDocumentById", "deleteDocumentById"}
        /\ Blank(lastOp.args.id)) => RejectedEarly

\* C10 as stated: after a successful addDocument, setDocument or updateDocument
\* the stored record has createdAt and updatedAt, and updatedAt is the server
\* time of that write.
C10_BothStampsAfterWrite ==
    StampedWrite(lastOp) =>
        LET doc == store[WrittenKey(lastOp)]
        IN  /\ createdAt \in DOMAIN doc
            /\ updatedAt \in DOMAIN doc
            /\ doc[updatedAt] = now

\* C10 as amended: after a successful addDocument or setDocument the stored record
\* has createdAt and updatedAt; after a successful updateDocument it has
\* updatedAt, and createdAt exactly when the record had one before or the payload
\* gives one; in all three updatedAt is the server time of that write, whatever
\* updatedAt the payload holds.
C10_StampsAfterWrite ==
    [][ (Idle /\ StampedWrite(lastOp'))
        => LET key  == WrittenKey(lastOp')
               doc  == store'[key]
               data == Spread(lastOp'.args.data)
           IN  /\ updatedAt \in DOMAIN doc
               /\ doc[updatedAt] = now'
               /\ now' > now
               /\ lastOp'.name \in {"addDocument", "setDocument"} => createdAt \in DOMAIN doc
               /\ lastOp'.name = "updateDocument" =>
                     (createdAt \in DOMAIN doc
                        <=> (createdAt \in DOMAIN store[key] \/ createdAt \in DOMAIN data))
      ]_vars

\* an updateDocument whose payload holds an updatedAt succeeded on a record
\* without createdAt
C10_Witness ==
    /\ lastOp.name = "updateDocument" /\ lastOp.outcome = "ok"
    /\ createdAt \notin DOMAIN store[WrittenKey(lastOp)]
    /\ store[WrittenKey(lastOp)][updatedAt] = now

(***************************************************************************)
(* SpecArgs: the nine functions that take a collection name, called with   *)
(* blank and valid names, and queryCollection with every kind of option.   *)
(***************************************************************************)
CollectionNames == BlankStrings \cup {UsersName}

PageSizes == {Undefined, Num(0), Num(0 - 1), NumHalf(1), Num(1), Num(2)}

ConditionLists ==
    {<<>>,
     <<[field |-> StrV(FieldA), op |-> Eq, value |-> 1]>>,
     <<[field |-> StrV(<<" ">>), op |-> Eq, value |-> 1]>>,
     <<[field |-> StrV(FieldA), op |-> StrV(<<>>), value |-> 1]>>}

OrderLists ==
    {<<>>,
     <<[field |-> StrV(FieldA), direction |-> Desc]>>,
     <<[field |-> StrV(<<>>), direction |-> Asc]>>,
     <<[field |-> StrV(FieldA), direction |-> StrV(<<"u", "p">>)]>>}

QueryOptions ==
    {[collectionName |-> UsersName, conditions |-> cs, orders |-> os, pageSize |-> n,
      startAfterDoc |-> Undefined] :
        cs \in ConditionLists, os \in OrderLists, n \in PageSizes}
    \cup {[collectionName |-> c, conditions |-> <<>>, orders |-> <<>>, pageSize |-> Num(2),
           startAfterDoc |-> Undefined] : c \in BlankStrings}

NoOptions == [conditions |-> <<>>, orders |-> <<>>, pageSize |-> Undefined]

NextArgs ==
    \/ Idle /\ \E c \in CollectionNames, r \in Responses : AddDocument(c, PlainObject, Doc1, r)
          /\ Apart
    \/ Idle /\ \E c \in CollectionNames, r \in Responses :
                  SetDocument(c, StrV(Doc1), PlainObject, TRUE, r) /\ Apart
    \/ Idle /\ \E c \in CollectionNames, r \in Responses : GetDocumentById(c, StrV(Doc1), r)
          /\ Apart
    \/ Idle /\ \E c \in CollectionNames, r \in Responses : GetCollection(c, r) /\ Apart
    \/ Idle /\ \E c \in CollectionNames, r \in Responses :
                  UpdateDocument(c, StrV(Doc1), PlainObject, r) /\ Apart
    \/ Idle /\ \E c \in CollectionNames, r \in Responses :
                  DeleteDocumentById(c, StrV(Doc1), r) /\ Apart
    \/ Idle /\ \E o \in QueryOptions, r \in Responses : QueryCollection(o, r) /\ Apart
    \/ Idle /\ \E c \in CollectionNames, cb \in Callbacks :
                  ListenToCollection(c, NoOptions, cb, Undefined, FALSE) /\ Apart
    \/ Idle /\ \E c \in CollectionNames, cb \in Callbacks :
                  ListenToDocument(c, StrV(Doc1), cb, Undefined)
          /\ UNCHANGED <<screen, auth, requests, files, mock>>
    \/ Unsubscribe /\ Apart
    \/ UnsubscribeDocument /\ UNCHANGED <<screen, auth, requests, files, mock>>
    \/ Settle /\ Apart

SpecArgs == Init /\ [][NextArgs]_vars

NineFunctions ==
    {"addDocument", "setDocument", "getDocumentById", "getCollection", "updateDocument",
     "deleteDocumentById", "queryCollection", "listenToCollection", "listenToDocument"}

\* C3: each of the nine functions, called with a collection name that is empty
\* or white space only, fails with its validation error and issues no backend
\* call: no read, write, query or listener registration.
C3_BlankCollectionRefused ==
    [][ (/\ Idle /\ lastOp'.name \in NineFunctions
         /\ Blank(lastOp'.args.collectionName))
        => /\ lastOp'.outcome = "invalid"
           /\ lastOp'.error = Invalid("Nom de collection invalide")
           /\ lastOp'.calls = 0
           /\ UNCHANGED <<store, now, listener, docListener, pages>>
      ]_vars

\* listenToDocument refused a collection name of white space
C3_Witness ==
    /\ lastOp.name = "listenToDocument"
    /\ lastOp.args.collectionName = StrV(<<" ", "\t">>)
    /\ RejectedEarly
    /\ docListener.state = "none"

\* a page size that was given and is no positive integer
BadPageSize(p) == p.t # "undefined" /\ ~(p.t = "number" /\ ~p.half /\ p.n > 0)

BadConditions(cs) == \E i \in 1..Len(cs) : Blank(cs[i].field) \/ Blank(cs[i].op)

BadOrders(os) ==
    \E i \in 1..Len(os) : Blank(os[i].field) \/ os[i].direction \notin {Asc, Desc}

\* C6: queryCollection fails with a validation error, before any backend query,
\* when the page size is given and is no positive integer (0, negative, not an
\* integer), when a condition has a blank field or operator, when a sort order has
\* a blank field or a direction other than asc and desc.
C6_BadQueryOptionsRefused ==
    (/\ lastOp.name = "queryCollection"
     /\ \/ BadPageSize(lastOp.args.pageSize)
        \/ BadConditions(lastOp.args.conditions)
        \/ BadOrders(lastOp.args.orders)) => RejectedEarly

(***************************************************************************)
(* SpecQuery: queryCollection page after page on a collection that does    *)
(* not change; the collection is any set of documents d1..dNumDocs whose   *)
(* field a is 1 or 2.                                                      *)
(***************************************************************************)
NumDocs == 5

MaxPages == 4

\* the collection Users holding the documents i with f[i] > 0, each with a = f[i]
CollectionOf(f) ==
    [k \in {<<Users, DocId(i)>> : i \in {j \in DOMAIN f : f[j] > 0}} |->
        LET i == CHOOSE j \in DOMAIN f : DocId(j) = k[2] IN (FieldA :> f[i])]

InitQuery ==
    /\ \E f \in [1..NumDocs -> 0..2] : store = CollectionOf(f)
    /\ now = 1
    /\ lastOp = NoOp
    /\ listener = NoListener
    /\ pages = NoPages
    /\ upload = NoUpload
    /\ lastWrite = NoWrite
    /\ screen = NoScreen
    /\ docListener = NoListener
    /\ auth = NoAuth
    /\ requests = <<>>
    /\ files = {}
    /\ mock = HandWritten

FirstPageOptions ==
    {[collectionName |-> UsersName, conditions |-> cs, orders |-> os, pageSize |-> n,
      startAfterDoc |-> Undefined] :
        cs \in {<<>>, <<[field |-> StrV(FieldA), op |-> Eq, value |-> 1]>>},
        os \in {<<>>, <<[field |-> StrV(FieldA), direction |-> Desc]>>},
        n \in {Undefined, Num(2)}}

\* the cursor the latest page returned
LastCursor == pages.results[Len(pages.results)].lastVisible

\* the caller asks for the page after the latest one, passing its lastVisible
QueryNextPage(resp) ==
    /\ pages.results # <<>>
    /\ Len(pages.results) < MaxPages
    /\ LastCursor.t = "snapshot"
    /\ QueryCollection([pages.options EXCEPT !.startAfterDoc = LastCursor], resp)

NextQuery ==
    \/ Idle /\ \E o \in FirstPageOptions, r \in Responses : QueryCollection(o, r)
          /\ Apart
    \/ Idle /\ \E r \in Responses : QueryNextPage(r) /\ Apart
    \/ Settle /\ Apart

SpecQuery == InitQuery /\ [][NextQuery]_vars

\* everything the query of the current pagination selects, in its order
AllMatching ==
    RunQuery(Users, pages.options.conditions,
             SeqMap(OrderClause, pages.options.orders), 0, Null)

\* the k-th run of n elements of s
Slice(s, k, n) ==
    SubSeq(s, (k - 1) * n + 1, IF k * n < Len(s) THEN k * n ELSE Len(s))

\* a pagination by pages of two over five matching documents
FiveByTwo ==
    /\ pages.results # <<>>
    /\ pages.options.pageSize = Num(2)
    /\ Len(AllMatching) = 5

\* page k holds the k-th run of two of the matching documents
PageHolds(k) ==
    pages.results[k].data = DocsOf(Slice(AllMatching, k, 2))

\* C2 as stated: with five matching documents and pageSize = 2, the first call
\* returns two results and a cursor, the second the next two, the third the
\* remaining one with a null lastVisible.
C2_ThirdPageHasNoCursor ==
    FiveByTwo =>
        /\ PageHolds(1) /\ pages.results[1].lastVisible # Null
        /\ Len(pages.results) >= 2 => PageHolds(2)
        /\ Len(pages.results) >= 3 =>
              /\ PageHolds(3) /\ Len(pages.results[3].data) = 1
              /\ pages.results[3].lastVisible = Null

\* C2 as amended: the third call returns the remaining one with lastVisible set
\* to that record's snapshot; lastVisible is null only on the empty page a
\* fourth call returns.
C2_PagesOfTwo ==
    FiveByTwo =>
        \A k \in 1..Len(pages.results) :
            /\ PageHolds(k)
            /\ Len(pages.results[k].data) = (IF k <= 2 THEN 2 ELSE IF k = 3 THEN 1 ELSE 0)
            /\ pages.results[k].lastVisible =
                  IF k <= 2 THEN AllMatching[2 * k]
                  ELSE IF k = 3 THEN AllMatching[5]
                  ELSE Null

\* the fourth call of such a pagination has returned
C2_Witness == FiveByTwo /\ Len(pages.results) = 4 /\ pages.results[4].data = <<>>

(***************************************************************************)
(* SpecListen: one listener on Users, registered with every kind of        *)
(* served option, while documents d1 and d2 are inserted.                  *)
(***************************************************************************)
ServedOptions ==
    {[conditions |-> cs, orders |-> os, pageSize |-> n] :
        cs \in {<<>>, <<[field |-> StrV(FieldA), op |-> Eq, value |-> 1]>>},
        os \in {<<>>, <<[field |-> StrV(FieldA), direction |-> Desc]>>},
        n \in {Undefined, Num(1)}}

ListenDocs == {Doc1, Doc2}

ListenPayloads == {Obj((FieldA :> 1)), Obj((FieldA :> 2)), Obj((FieldB :> 1))}

NextListen ==
    \/ Idle /\ \E o \in ServedOptions, ecb \in Callbacks :
                  ListenToCollection(UsersName, o, Fn, ecb, FALSE) /\ Apart
    \/ Idle /\ \E d \in ListenDocs, x \in ListenPayloads : AddDocument(UsersName, x, d, BackendOk)
          /\ Apart
    \/ Unsubscribe /\ Apart
    \/ DeliverSnapshot /\ Apart
    \/ ListenerError("unavailable") /\ Apart
    \/ Settle /\ Apart

SpecListen == Init /\ [][NextListen]_vars

\* the listener is attached and its query is one the backend serves
Serving == listener.state = "active" /\ WellFormed(listener.conditions, listener.orders)

\* document d of the listened collection passes every condition of the listener
PassesFilter(d) ==
    /\ Exists(<<listener.collectionName, d>>)
    /\ \A i \in 1..Len(listener.conditions) :
          Matches(store[<<listener.collectionName, d>>], listener.conditions[i])

\* document d is in the list the callback received last
InCallbackList(d) ==
    listener.fired /\ \E i \in 1..Len(listener.docs) : listener.docs[i][<<"i", "d">>] = StrV(d)

\* this step invokes the callback
CallbackInvoked == listener'.callbacks = listener.callbacks + 1

\* the backend has no snapshot left to deliver: the last callback list is the
\* current result
UpToDate == listener.fired /\ listener.docs = Watched(listener)

\* document d has every field the listener sorts by
HasOrderFields(d) ==
    \A i \in 1..Len(listener.orders) :
        listener.orders[i].field.s \in DOMAIN store[<<listener.collectionName, d>>]

\* C5 as stated: once a listener is registered, every inserted document that
\* passes its filter is, when the backend has delivered its latest snapshot, in
\* the list the callback received; after unsubscribe the callback is invoked no
\* more.
C5_EveryMatchingInsertDelivered ==
    [][ /\ (Serving /\ UpToDate)' =>
              \A d \in ListenDocs : PassesFilter(d)' => InCallbackList(d)'
        /\ CallbackInvoked => ~listener.unsubscribed
      ]_vars

\* C5 as amended: for a listener without page size, every inserted document that
\* passes its filter and has the fields it sorts by is, when the backend has
\* delivered its latest snapshot, in the list the callback received; with page
\* size n the list holds the first n documents of the result only; each callback
\* receives the full current result of the listener's query; after unsubscribe
\* the callback is invoked no more.
C5_ResultInsertDelivered ==
    [][ /\ (Serving /\ UpToDate)' =>
              /\ \A d \in ListenDocs :
                    (PassesFilter(d) /\ HasOrderFields(d) /\ listener.limit = 0)'
                        => InCallbackList(d)'
              /\ listener'.limit > 0 => Len(listener'.docs) <= listener'.limit
        /\ CallbackInvoked =>
              /\ ~listener.unsubscribed
              /\ listener.state = "active"
              /\ listener'.docs = Watched(listener)
      ]_vars

\* the callback of a listener with a filter has received a list holding a
\* document inserted after the registration, and the listener was unsubscribed
C5_Witness ==
    /\ listener.state = "stopped" /\ listener.unsubscribed
    /\ listener.conditions # <<>>
    /\ listener.callbacks = 2
    /\ InCallbackList(Doc2)

(***************************************************************************)
(* SpecListenArgs: listenToCollection called with every kind of option,    *)
(* well formed or not, on an empty collection.                             *)
(***************************************************************************)
ListenOptions ==
    ServedOptions
    \cup {[NoOptions EXCEPT !.conditions = cs] : cs \in ConditionLists}
    \cup {[NoOptions EXCEPT !.orders = os] : os \in OrderLists}
    \cup {[NoOptions EXCEPT !.pageSize = n] : n \in PageSizes}

NextListenArgs ==
    \/ Idle /\ \E o \in ListenOptions, cb \in Callbacks, ecb \in Callbacks, t \in BOOLEAN :
                  ListenToCollection(UsersName, o, cb, ecb, t) /\ Apart
    \/ Unsubscribe /\ Apart
    \/ DeliverSnapshot /\ Apart
    \/ ListenerError("unavailable") /\ Apart
    \/ Settle /\ Apart

SpecListenArgs == Init /\ [][NextListenArgs]_vars

\* C7: listenToCollection called with a condition whose field or operator is
\* blank, a sort order whose direction is neither asc nor desc, or a page size
\* that is no positive integer throws its validation error and registers no
\* listener.
C7_BadListenOptionsRefused ==
    (/\ lastOp.name = "listenToCollection"
     /\ IsValidString(lastOp.args.collectionName)
     /\ TypeOf(lastOp.args.callback) = "function"
     /\ \/ BadPageSize(lastOp.args.options.pageSize)
        \/ BadConditions(lastOp.args.options.conditions)
        \/ \E i \in 1..Len(lastOp.args.options.orders) :
              lastOp.args.options.orders[i].direction \notin {Asc, Desc})
    => RejectedEarly

(***************************************************************************)
(* SpecUpload: uploadFileWithProgress and the events of its upload task,   *)
(* next to updateDocument on a collection that holds no document.          *)
(***************************************************************************)
File == [t |-> "file", size |-> 2]

Blob == [t |-> "blob", size |-> 1]

PathName == StrV(<<"a">>)

\* <<path, fileOrBlob, onProgress>>
UploadCalls ==
    ({PathName} \X {File, Blob} \X {Fn, Undefined, Null})
    \cup (BlankStrings \X {File} \X {Fn})
    \cup ({PathName} \X {Null, PlainObject, StrV(<<"a">>)} \X {Fn})
    \cup ({PathName} \X {File} \X {Num(5), PlainObject})

NextUpload ==
    \/ Idle /\ \E x \in UploadCalls : UploadFileWithProgress(x[1], x[2], x[3]) /\ Apart
    \/ \E b \in 0..2 : UploadStateChanged(b) /\ Apart
    \/ UploadError("unavailable") /\ Apart
    \/ UploadComplete /\ UNCHANGED <<screen, docListener, auth, requests, mock>>
    \/ \E r \in Responses : DownloadURLAnswer(r) /\ Apart
    \/ Idle /\ \E x \in SmallPayloads, r \in Responses :
                  UpdateDocument(UsersName, StrV(Doc1), x, r) /\ Apart
    \/ Settle /\ Apart

SpecUpload == Init /\ [][NextUpload]_vars

\* err is a generic Error whose message is a fixed prefix followed by m
Rewrapped(err, m) == err.kind = "Error" /\ err.prefix # "" /\ err.msg = m

\* C8: whenever the backend reports a failure with message m, what the caller
\* of the facade operation observes (the rejection of the promise it awaits) is
\* a generic Error whose message is the operation's prefix followed by m, never
\* the backend's own error object.
C8_BackendFailureRewrapped ==
    /\ lastOp.outcome = "failed" => Rewrapped(lastOp.error, lastOp.failed)
    /\ upload.promise = "rejected" => Rewrapped(upload.error, upload.failed)

(***************************************************************************)
(* The UserManagement component: its state, its handlers, what it renders. *)
(* A handler that awaits a backend call runs in two steps: up to the       *)
(* await, and from the settled call on, with the users list of the render  *)
(* it was started from.                                                    *)
(***************************************************************************)
statut == <<"s", "t", "a", "t", "u", "t">>

\* the handlers followed at a time while they await their backend call
MaxRunning == 2

CanStart == Cardinality(screen.running) < MaxRunning

IdKey == <<"i", "d">>

\* fetchUsers: uid: user.id, statut: user.statut ?? 1
FetchedUser(doc) ==
    [uid |-> doc[IdKey], statut |-> IF statut \in DOMAIN doc THEN doc[statut] ELSE 1]

\* statusMap[statut] || 'Inconnu'
GetStatusLabel(n) ==
    CASE n = 1 -> "actif" [] n = 0 -> "banni" [] n = 2 -> "en_attente" [] OTHER -> "Inconnu"

\* what the component returns: the loading line, the error line, or the page
\* with the users list
Rendered ==
    IF screen.loading THEN "loading" ELSE IF screen.error # "" THEN "error" ELSE "list"

\* users.find(u => u.uid === userId): the index of the first such user, 0 if none
FindUser(users, uid) ==
    LET hits == {i \in 1..Len(users) : users[i].uid = uid}
    IN  IF hits = {} THEN 0 ELSE CHOOSE i \in hits : \A j \in hits : i <= j

\* updateData with a fourth statut for 'reject'
UpdateDataRejected(action) ==
    CASE action = "approve" -> (statut :> 1)
      [] action = "reject" -> (statut :> 3)
      [] action = "ban" -> (statut :> 0)
      [] OTHER -> NoFields

\* updateData of the switch in handleUserAction
UpdateData(action) ==
    CASE action = "approve" -> (statut :> 1)
      [] action = "reject" -> (statut :> 2)
      [] action = "ban" -> (statut :> 0)
      [] OTHER -> NoFields

\* the buttons of a UserCard and whether they can be clicked
Offered(user, action) ==
    /\ screen.actionLoading # user.uid
    /\ CASE action = "edit" -> TRUE
         [] action \in {"approve", "reject"} -> GetStatusLabel(user.statut) = "en_attente"
         [] action = "ban" -> GetStatusLabel(user.statut) # "banni"
         [] OTHER -> FALSE

\* the component mounts: useEffect starts loadUsers, which awaits fetchUsers
Mounted ==
    [NoScreen EXCEPT !.mounted = TRUE, !.loading = TRUE,
                     !.running = {[kind |-> "load", uid |-> Null, action |-> "",
                                   data |-> NoFields, users |-> <<>>, user |-> Null]}]

\* fetchUsers settles: setUsers(fetchedUsers), or setError(...); finally
\* setLoading(false)
LoadSettles(resp) ==
    \E p \in screen.running :
        /\ p.kind = "load"
        /\ GetCollection(UsersName, resp)
        /\ screen' =
             IF lastOp'.outcome = "ok"
             THEN [screen EXCEPT !.users = [i \in 1..Len(lastOp'.result) |->
                                               FetchedUser(lastOp'.result[i])],
                                 !.loaded = TRUE, !.loading = FALSE,
                                 !.running = @ \ {p}]
             ELSE [screen EXCEPT !.error = "Erreur lors du chargement des utilisateurs",
                                 !.loading = FALSE, !.running = @ \ {p}]

\* handleUserAction(userId, action) up to its await, or to its return
HandleUserAction(userId, action) ==
    /\ screen.mounted
    /\ UNCHANGED <<store, now, lastOp, listener, pages, upload, lastWrite, docListener,
                   auth, requests, files, mock>>
    /\ IF action \in {"approve", "reject", "ban"}
       THEN /\ CanStart
            /\ screen' =
              [screen EXCEPT
                 !.actionLoading = userId,
                 !.running = @ \cup {[kind |-> "action", uid |-> userId, action |-> action,
                                      data |-> UpdateData(action), users |-> screen.users,
                                      user |-> Null]}]
       ELSE IF action = "edit" /\ FindUser(screen.users, userId) # 0
       THEN screen' = [screen EXCEPT
                         !.editUser = screen.users[FindUser(screen.users, userId)],
                         !.actionLoading = Null]
       ELSE screen' = [screen EXCEPT !.actionLoading = Null]

\* users.map(user => (user.uid === userId ? { ...user, ...updateData } : user))
WithUpdate(users, userId, data) ==
    [i \in 1..Len(users) |->
        IF users[i].uid = userId /\ statut \in DOMAIN data
        THEN [users[i] EXCEPT !.statut = data[statut]]
        ELSE users[i]]

\* the updateDocument of a running handleUserAction settles: setUsers(...), or
\* setError(...); finally setActionLoading(null)
ActionSettles(resp) ==
    \E p \in screen.running :
        /\ p.kind = "action"
        /\ UpdateDocument(UsersName, p.uid, Obj(p.data), resp)
        /\ screen' =
             IF lastOp'.outcome = "ok"
             THEN [screen EXCEPT !.users = WithUpdate(p.users, p.uid, p.data),
                                 !.actionLoading = Null, !.running = @ \ {p}]
             ELSE [screen EXCEPT !.error = "Erreur lors de l'action",
                                 !.actionLoading = Null, !.running = @ \ {p}]

\* onChange of the statut select of the edit form: setEditUser({ ...editUser, statut })
EditStatut(n) ==
    /\ screen.editUser # Null
    /\ screen' = [screen EXCEPT !.editUser = [@ EXCEPT !.statut = n]]
    /\ UNCHANGED <<store, now, lastOp, listener, pages, upload, lastWrite, docListener,
                   auth, requests, files, mock>>

\* the Annuler button of the edit form: setEditUser(null)
CancelEdit ==
    /\ screen.editUser # Null
    /\ screen' = [screen EXCEPT !.editUser = Null]
    /\ UNCHANGED <<store, now, lastOp, listener, pages, upload, lastWrite, docListener,
                   auth, requests, files, mock>>

\* onSubmit of the edit form, up to its await
SubmitEdit ==
    /\ screen.editUser # Null
    /\ CanStart
    /\ screen' =
         [screen EXCEPT
            !.running = @ \cup {[kind |-> "edit", uid |-> screen.editUser.uid, action |-> "",
                                 data |-> (statut :> screen.editUser.statut),
                                 users |-> screen.users, user |-> screen.editUser]}]
    /\ UNCHANGED <<store, now, lastOp, listener, pages, upload, lastWrite, docListener,
                   auth, requests, files, mock>>

\* users.map(user => (user.uid === editUser.uid ? editUser : user))
WithEdited(users, editUser) ==
    [i \in 1..Len(users) |-> IF users[i].uid = editUser.uid THEN editUser ELSE users[i]]

\* the updateDocument of a submitted edit settles: setUsers(...) and
\* setEditUser(null), or setError(...)
EditSettles(resp) ==
    \E p \in screen.running :
        /\ p.kind = "edit"
        /\ UpdateDocument(UsersName, p.uid, Obj(p.data), resp)
        /\ screen' =
             IF lastOp'.outcome = "ok"
             THEN [screen EXCEPT !.users = WithEdited(p.users, p.user),
                                 !.editUser = Null, !.running = @ \ {p}]
             ELSE [screen EXCEPT !.error = "Erreur lors de la mise a jour de l'utilisateur",
                                 !.running = @ \ {p}]

\* the Ajouter utilisateur button: setShowAddModal(true)
OpenAddModal ==
    /\ ~screen.showAddModal
    /\ screen' = [screen EXCEPT !.showAddModal = TRUE]
    /\ UNCHANGED <<store, now, lastOp, listener, pages, upload, lastWrite, docListener,
                   auth, requests, files, mock>>

\* the Annuler button of the add form: setShowAddModal(false)
CancelAdd ==
    /\ screen.showAddModal
    /\ screen' = [screen EXCEPT !.showAddModal = FALSE]
    /\ UNCHANGED <<store, now, lastOp, listener, pages, upload, lastWrite, docListener,
                   auth, requests, files, mock>>

\* onChange of the email input of the add form: setNewUser({ ...newUser, email })
TypeEmail(email) ==
    /\ screen.showAddModal
    /\ screen' = [screen EXCEPT !.newUser = [@ EXCEPT !.email = email]]
    /\ UNCHANGED <<store, now, lastOp, listener, pages, upload, lastWrite, docListener,
                   auth, requests, files, mock>>

\* Date.now().toString()
DateNow == <<Digit(now)>>

uid == <<"u", "i", "d">>

\* onSubmit of the add form, up to its await:
\* userData = { ...newUser, uid: newUser.email || Date.now().toString(), ... }
SubmitAdd ==
    /\ screen.showAddModal
    /\ CanStart
    /\ LET id == IF screen.newUser.email # <<>> THEN screen.newUser.email ELSE DateNow
       IN  screen' =
             [screen EXCEPT
                !.running = @ \cup {[kind |-> "add", uid |-> StrV(id), action |-> "",
                                     data |-> (statut :> screen.newUser.statut)
                                              @@ (uid :> StrV(id)),
                                     users |-> screen.users,
                                     user |-> [uid |-> StrV(id),
                                               statut |-> screen.newUser.statut]]}]
    /\ UNCHANGED <<store, now, lastOp, listener, pages, upload, lastWrite, docListener,
                   auth, requests, files, mock>>

\* the add form persisting its user with setDocument instead
AddSettlesBySetDocument(resp) ==
    \E p \in screen.running :
        /\ p.kind = "add"
        /\ SetDocument(UsersName, p.uid, Obj(p.data), FALSE, resp)
        /\ screen' =
             IF lastOp'.outcome = "ok"
             THEN [screen EXCEPT !.users = Append(p.users, p.user),
                                 !.showAddModal = FALSE,
                                 !.newUser = NoScreen.newUser, !.running = @ \ {p}]
             ELSE [screen EXCEPT !.error = "Erreur lors de la creation de l'utilisateur",
                                 !.running = @ \ {p}]

\* the updateDocument of a submitted add form settles: setUsers([...users,
\* userData]), setShowAddModal(false), setNewUser({...}), or setError(...)
AddSettles(resp) ==
    \E p \in screen.running :
        /\ p.kind = "add"
        /\ UpdateDocument(UsersName, p.uid, Obj(p.data), resp)
        /\ screen' =
             IF lastOp'.outcome = "ok"
             THEN [screen EXCEPT !.users = Append(p.users, p.user),
                                 !.showAddModal = FALSE,
                                 !.newUser = NoScreen.newUser, !.running = @ \ {p}]
             ELSE [screen EXCEPT !.error = "Erreur lors de la creation de l'utilisateur",
                                 !.running = @ \ {p}]

(***************************************************************************)
(* SpecScreen: the UserManagement component mounted on a Users collection  *)
(* of at most two documents, with every status button the rendered page    *)
(* offers and every answer of the backend.                                 *)
(***************************************************************************)
\* the collection Users holding document i with statut f[i], for f[i] in 0..2;
\* with no statut field for f[i] = 3; without document i for f[i] = 4
UsersWith(f) ==
    [k \in {<<Users, DocId(i)>> : i \in {j \in DOMAIN f : f[j] < 4}} |->
        LET i == CHOOSE j \in DOMAIN f : DocId(j) = k[2]
        IN  IF f[i] = 3 THEN (FieldA :> 1) ELSE (statut :> f[i])]

InitScreen ==
    /\ \E f \in [{1, 2} -> 1..4] : store = UsersWith(f)
    /\ now = 1
    /\ lastOp = NoOp
    /\ listener = NoListener
    /\ pages = NoPages
    /\ upload = NoUpload
    /\ lastWrite = NoWrite
    /\ screen = Mounted
    /\ docListener = NoListener
    /\ auth = NoAuth
    /\ requests = <<>>
    /\ files = {}
    /\ mock = HandWritten

Clicks == {"approve", "reject", "ban"}

NextScreen ==
    \/ Idle /\ \E r \in Responses : LoadSettles(r)
          /\ UNCHANGED <<docListener, auth, requests, files, mock>>
    \/ Rendered = "list" /\ \E i \in 1..Len(screen.users), a \in Clicks :
          Offered(screen.users[i], a) /\ HandleUserAction(screen.users[i].uid, a)
    \/ Idle /\ \E r \in Responses : ActionSettles(r)
          /\ UNCHANGED <<docListener, auth, requests, files, mock>>
    \/ Settle /\ Apart

SpecScreen == InitScreen /\ [][NextScreen]_vars

(***************************************************************************)
(* SpecForms: the same component, with its edit form and its add form; a   *)
(* form is submitted when no earlier submission is still awaited.          *)
(***************************************************************************)
Emails == {<<>>, Doc1}

NextForms ==
    \/ Idle /\ \E r \in Responses : LoadSettles(r)
          /\ UNCHANGED <<docListener, auth, requests, files, mock>>
    \/ Rendered = "list" /\ \E i \in 1..Len(screen.users) :
          Offered(screen.users[i], "edit") /\ HandleUserAction(screen.users[i].uid, "edit")
    \/ Rendered = "list" /\ \E n \in 0..2 : EditStatut(n)
    \/ Rendered = "list" /\ CancelEdit
    \/ Rendered = "list" /\ screen.running = {} /\ SubmitEdit
    \/ Idle /\ \E r \in Responses : EditSettles(r)
          /\ UNCHANGED <<docListener, auth, requests, files, mock>>
    \/ Rendered = "list" /\ OpenAddModal
    \/ Rendered = "list" /\ CancelAdd
    \/ Rendered = "list" /\ \E e \in Emails : TypeEmail(e)
    \/ Rendered = "list" /\ screen.running = {} /\ SubmitAdd
    \/ Idle /\ \E r \in Responses : AddSettles(r)
          /\ UNCHANGED <<docListener, auth, requests, files, mock>>
    \/ Settle /\ Apart

SpecForms == InitScreen /\ [][NextForms]_vars

\* C11: when a backend call of the user-management screen fails (initial load,
\* approve/reject/ban, edit submit, add submit), the screen shows a generic
\* error string, and the users list loaded by the last successful fetch stays
\* displayed and is not replaced.
C11_FailureKeepsListDisplayed ==
    [][ (lastOp'.outcome = "failed" /\ screen' # screen)
        => /\ screen'.error # ""
           /\ screen'.users = screen.users
           /\ (screen.loaded /\ Rendered = "list") => Rendered' = "list"
      ]_vars

(***************************************************************************)
(* SpecListeners: a collection listener on Users and a document listener   *)
(* on the document d1 of Properties, while callers write, delete and read  *)
(* the document d1 of either collection.                                   *)
(***************************************************************************)
Properties == <<"P", "r", "o", "p", "e", "r", "t", "i", "e", "s">>

PropertiesName == StrV(Properties)

ListenedNames == {UsersName, PropertiesName}

\* the stores the callers may start from: d1 present or absent in each collection
ListenedStores ==
    {[k \in {<<c, Doc1>> : c \in cs} |-> (FieldA :> 1)] : cs \in SUBSET {Users, Properties}}

InitListeners ==
    /\ store \in ListenedStores
    /\ now = 1
    /\ lastOp = NoOp
    /\ listener = NoListener
    /\ pages = NoPages
    /\ upload = NoUpload
    /\ lastWrite = NoWrite
    /\ screen = NoScreen
    /\ docListener = NoListener
    /\ auth = NoAuth
    /\ requests = <<>>
    /\ files = {}
    /\ mock = HandWritten

NextListeners ==
    \/ Idle /\ ListenToCollection(UsersName, NoOptions, Fn, Fn, FALSE) /\ Apart
    \/ Idle /\ ListenToDocument(PropertiesName, StrV(Doc1), Fn, Fn)
          /\ UNCHANGED <<screen, auth, requests, files, mock>>
    \/ DeliverSnapshot /\ Apart
    \/ DeliverDocument /\ UNCHANGED <<screen, auth, requests, files, mock>>
    \/ Unsubscribe /\ Apart
    \/ UnsubscribeDocument /\ UNCHANGED <<screen, auth, requests, files, mock>>
    \/ ListenerError("unavailable") /\ Apart
    \/ DocumentListenerError("unavailable") /\ UNCHANGED <<screen, auth, requests, files, mock>>
    \/ Idle /\ \E c \in ListenedNames :
                  SetDocument(c, StrV(Doc1), Obj((FieldA :> 2)), FALSE, BackendOk) /\ Apart
    \/ Idle /\ \E c \in ListenedNames : DeleteDocumentById(c, StrV(Doc1), BackendOk) /\ Apart
    \/ Idle /\ \E r \in Responses : GetDocumentById(PropertiesName, StrV(Doc1), r) /\ Apart
    \/ Settle /\ Apart

SpecListeners == InitListeners /\ [][NextListeners]_vars

\* C12: a document that does not exist is not an error. getDocumentById on it
\* resolves with null, and listenToDocument hands null to the data callback
\* (the error callback is not run and the listener stays active), at the first
\* delivery as well as at the delivery that follows the document's deletion.
C12_MissingDocumentIsNull ==
    [][ /\ (/\ lastOp' # lastOp
            /\ lastOp'.name = "getDocumentById"
            /\ lastOp'.calls = 1 /\ lastOp'.failed = ""
            /\ ~Exists(DocKey(lastOp'.args.collectionName, lastOp'.args.id)))
           => lastOp'.outcome = "ok" /\ lastOp'.result = Null
        /\ (/\ docListener'.callbacks > docListener.callbacks
            /\ ~Exists(<<docListener.collectionName, docListener.id>>))
           => /\ docListener'.docs = Null
              /\ docListener'.error = NoError
              /\ docListener'.state = "active"
      ]_vars

\* the data callback has received the document and then null, once it was deleted,
\* and getDocumentById has resolved with null for the deleted document
C12_Witness ==
    /\ docListener.callbacks >= 2
    /\ docListener.docs = Null
    /\ lastWrite.name = "deleteDocumentById"
    /\ lastOp.name = "getDocumentById" /\ lastOp.outcome = "ok" /\ lastOp.result = Null

(***************************************************************************)
(* The cursor of queryCollection, checked under SpecQuery.                 *)
(***************************************************************************)
\* the place of the document with identifier id in the ordered result all
PlaceOf(all, id) == CHOOSE i \in 1..Len(all) : all[i].id = id

\* the identifiers of the records of page k
IdsOfPage(k) ==
    {pages.results[k].data[i][IdKey].s : i \in 1..Len(pages.results[k].data)}

\* C13: queryCollection returns lastVisible = null exactly when the page it
\* returns is empty; for a page that is not empty lastVisible is the backend
\* snapshot of the last record of the page, and the follow-up call with the same
\* conditions, orders and page size that passes it as startAfterDoc returns only
\* documents ordered strictly after it, so no document is in two consecutive
\* pages.
C13_CursorIsLastRecord ==
    \A k \in 1..Len(pages.results) :
        LET page == pages.results[k]
            all  == AllMatching
        IN  /\ (page.lastVisible = Null) <=> (page.data = <<>>)
            /\ page.data # <<>> =>
                  /\ page.lastVisible.t = "snapshot"
                  /\ page.lastVisible = Snapshot(Users, page.data[Len(page.data)][IdKey].s)
                  /\ WithId(page.lastVisible) = page.data[Len(page.data)]
            /\ k > 1 =>
                  /\ \A id \in IdsOfPage(k) :
                        PlaceOf(all, id) > PlaceOf(all, pages.results[k - 1].lastVisible.id)
                  /\ IdsOfPage(k) \cap IdsOfPage(k - 1) = {}

\* two pages of records followed by an empty page whose lastVisible is null
C13_Witness ==
    /\ Len(pages.results) = 3
    /\ pages.results[1].data # <<>> /\ pages.results[2].data # <<>>
    /\ pages.results[3].data = <<>> /\ pages.results[3].lastVisible = Null

(***************************************************************************)
(* The batch runBatch commits, checked under Spec.                         *)
(***************************************************************************)
\* the fields of a document after fields are written over it
Over(old, fields) ==
    [f \in (DOMAIN old) \cup (DOMAIN fields) |->
        IF f \in DOMAIN fields THEN fields[f] ELSE old[f]]

\* the documents after the i-th operation of ops and all those before it
RECURSIVE AfterFirst(_, _, _)
AfterFirst(st, ops, i) ==
    IF i = 0 THEN st
    ELSE LET before == AfterFirst(st, ops, i - 1)
             op     == ops[i]
             there  == op.ref \in DOMAIN before
             others == (DOMAIN before) \ {op.ref}
         IN  IF op.type = TypeDelete
             THEN [k \in others |-> before[k]]
             ELSE [k \in others \cup {op.ref} |->
                     IF k # op.ref THEN before[k]
                     ELSE IF there /\ (op.type = TypeUpdate \/ op.merge = True)
                     THEN Over(before[k], op.data.f)
                     ELSE op.data.f]

\* C14: for a valid non-empty list runBatch stages the operations in list order
\* in one batch (set with the merge flag of the operation, false when it has
\* none; update; delete) and calls commit exactly once; afterwards the backend
\* holds the outcome of all the operations of the list, or of none of them.
C14_BatchIsAllOrNothing ==
    [][ (/\ lastOp'.name = "runBatch" /\ Idle
         /\ lastOp'.args.t = "array" /\ Len(lastOp'.args.items) > 0
         /\ ~HasBadOperation(lastOp'.args.items))
        => LET ops == lastOp'.args.items
           IN  /\ lastOp'.calls = 1
               /\ lastOp'.outcome \in {"ok", "failed"}
               /\ lastOp'.outcome = "ok" => store' = AfterFirst(store, ops, Len(ops))
               /\ lastOp'.outcome = "failed" => store' = store
      ]_vars

\* a batch of a replacing set and a merging set on a stored document was committed
C14_Witness ==
    /\ lastOp.name = "runBatch" /\ lastOp.outcome = "ok" /\ lastOp.calls = 1
    /\ lastOp.args.items = <<SetOp(Doc1, PlainObject, Undefined),
                             SetOp(Doc1, Obj((FieldB :> 1)), True)>>
    /\ store[<<Users, Doc1>>] = (FieldA :> 1) @@ (FieldB :> 1)

(***************************************************************************)
(* The auth facade, runFsTransaction and uploadFile.  Each is one call of  *)
(* its caller: the requests it sends to the backend are recorded, in the   *)
(* order it sends them, with the answer each one got.                      *)
(***************************************************************************)
\* [^\s@]: a character that is neither white space nor @
Plain(c) == c \notin WhiteSpace /\ c # "@"

\* [^\s@]+ matches s[a..b]
PlainRun(s, a, b) == a <= b /\ \A k \in a..b : Plain(s[k])

\* /^[^\s@]+@[^\s@]+/.test(email): as isValidEmail without the \.[^\s@]+ it ends with
IsValidEmailNoDot(email) ==
    /\ email.t = "string"
    /\ \E i \in 1..Len(email.s) :
          /\ PlainRun(email.s, 1, i - 1)
          /\ email.s[i] = "@"
          /\ PlainRun(email.s, i + 1, Len(email.s))

\* isValidEmail: /^[^\s@]+@[^\s@]+\.[^\s@]+$/.test(email)
IsValidEmail(email) ==
    /\ email.t = "string"
    /\ \E i, j \in 1..Len(email.s) :
          /\ PlainRun(email.s, 1, i - 1)
          /\ email.s[i] = "@"
          /\ PlainRun(email.s, i + 1, j - 1)
          /\ email.s[j] = "."
          /\ PlainRun(email.s, j + 1, Len(email.s))

\* the requests of reqs a call sends when an awaited failure ends nothing
SentDespiteFailure(reqs, resps) ==
    [i \in 1..Len(reqs) |-> [request |-> reqs[i], ok |-> resps[i].ok, msg |-> resps[i].msg]]

\* the requests of reqs a call sends, answered by resps: it awaits each one inside
\* its try, and the first one that fails takes it to the catch
Sent(reqs, resps) ==
    LET bad == {i \in 1..Len(reqs) : ~resps[i].ok}
        n   == IF bad = {} THEN Len(reqs) ELSE CHOOSE i \in bad : \A j \in bad : i <= j
    IN  [i \in 1..n |-> [request |-> reqs[i], ok |-> resps[i].ok, msg |-> resps[i].msg]]

\* the request of sent that failed, 0 when none did
FailedAt(sent) ==
    IF \A i \in 1..Len(sent) : sent[i].ok THEN 0
    ELSE CHOOSE i \in 1..Len(sent) : ~sent[i].ok /\ \A j \in 1..(i - 1) : sent[j].ok

\* the outcome of a call that sent the requests sent: what it returns when all of
\* them succeeded, `throw new Error(prefix + error.message)` when one failed
Outcome(name, args, sent, prefix, result) ==
    IF FailedAt(sent) = 0
    THEN Returned(name, args, result, Len(sent))
    ELSE LET m == sent[FailedAt(sent)].msg
         IN  Failed(name, args, Wrapped(prefix, m), m, Len(sent))

\* the answer of the auth service to createUserWithEmailAndPassword
CreateAnswer(email, resp) ==
    IF email.s \in DOMAIN auth.accounts THEN BackendFail("email-already-in-use") ELSE resp

\* the answer of the auth service to signInWithEmailAndPassword
SignInAnswer(email, password, resp) ==
    IF email.s \notin DOMAIN auth.accounts THEN BackendFail("user-not-found")
    ELSE IF auth.accounts[email.s].password # password.s THEN BackendFail("wrong-password")
    ELSE resp

\* the accounts with displayName set on the account of email
WithDisplayName(accounts, email, displayName) ==
    [accounts EXCEPT ![email].displayName = displayName]

\* the profile update issued ahead of the account creation
SignUpRequestsProfileFirst(displayName) ==
    IF IsValidString(displayName)
    THEN <<"updateProfile", "createUserWithEmailAndPassword">>
    ELSE <<"createUserWithEmailAndPassword">>

\* the requests of signUpWithEmail, in the order of its try block:
\* createUserWithEmailAndPassword, then updateProfile if isValidString(displayName)
SignUpRequests(displayName) ==
    IF IsValidString(displayName)
    THEN <<"createUserWithEmailAndPassword", "updateProfile">>
    ELSE <<"createUserWithEmailAndPassword">>

SignUpWithEmail(email, password, displayName, r1, r2) ==
    LET args == [email |-> email, password |-> password, displayName |-> displayName]
        reqs == SignUpRequests(displayName)
        sent == Sent(reqs, <<CreateAnswer(email, r1), r2>>)
        created == (email.s :> [password |-> password.s, displayName |-> Null])
                   @@ auth.accounts
    IN  /\ UNCHANGED <<mock, store, now, lastWrite, listener, pages, upload, screen, docListener,
                       files>>
        /\ IF ~IsValidEmail(email)
           THEN /\ lastOp' = Rejected("signUpWithEmail", args, "Format d'email invalide")
                /\ requests' = <<>>
                /\ UNCHANGED auth
           ELSE IF ~IsValidString(password)
           THEN /\ lastOp' = Rejected("signUpWithEmail", args,
                                      "Le mot de passe ne peut pas etre vide")
                /\ requests' = <<>>
                /\ UNCHANGED auth
           ELSE /\ requests' = sent
                /\ lastOp' = Outcome("signUpWithEmail", args, sent,
                                     "Echec de l'inscription : ", email)
                /\ auth' = IF ~sent[1].ok THEN auth
                           ELSE [accounts |->
                                   IF Len(sent) = 2 /\ sent[2].ok
                                   THEN WithDisplayName(created, email.s, displayName)
                                   ELSE created,
                                 currentUser |-> email]

SignInWithEmail(email, password, resp) ==
    LET args == [email |-> email, password |-> password]
        sent == Sent(<<"signInWithEmailAndPassword">>, <<SignInAnswer(email, password, resp)>>)
    IN  /\ UNCHANGED <<mock, store, now, lastWrite, listener, pages, upload, screen, docListener,
                       files>>
        /\ IF ~IsValidEmail(email)
           THEN /\ lastOp' = Rejected("signInWithEmail", args, "Format d'email invalide")
                /\ requests' = <<>>
                /\ UNCHANGED auth
           ELSE IF ~IsValidString(password)
           THEN /\ lastOp' = Rejected("signInWithEmail", args,
                                      "Le mot de passe ne peut pas etre vide")
                /\ requests' = <<>>
                /\ UNCHANGED auth
           ELSE /\ requests' = sent
                /\ lastOp' = Outcome("signInWithEmail", args, sent,
                                     "Echec de la connexion : ", email)
                /\ auth' = IF sent[1].ok THEN [auth EXCEPT !.currentUser = email] ELSE auth

Logout(resp) ==
    LET sent == Sent(<<"signOut">>, <<resp>>)
    IN  /\ UNCHANGED <<mock, store, now, lastWrite, listener, pages, upload, screen, docListener,
                       files>>
        /\ requests' = sent
        /\ lastOp' = Outcome("logout", Undefined, sent, "Echec de la deconnexion : ", Undefined)
        /\ auth' = IF sent[1].ok THEN [auth EXCEPT !.currentUser = Null] ELSE auth

SendReset(email, resp) ==
    LET args == [email |-> email]
        sent == Sent(<<"sendPasswordResetEmail">>, <<resp>>)
    IN  /\ UNCHANGED <<mock, store, now, lastWrite, listener, pages, upload, screen, docListener,
                       files, auth>>
        /\ IF ~IsValidEmail(email)
           THEN /\ lastOp' = Rejected("sendReset", args, "Format d'email invalide")
                /\ requests' = <<>>
           ELSE /\ requests' = sent
                /\ lastOp' = Outcome("sendReset", args, sent,
                                     "Echec de la reinitialisation du mot de passe : ",
                                     Undefined)

UpdateUserDisplayName(displayName, resp) ==
    LET args == [displayName |-> displayName]
        sent == Sent(<<"updateProfile">>, <<resp>>)
    IN  /\ UNCHANGED <<mock, store, now, lastWrite, listener, pages, upload, screen, docListener,
                       files>>
        /\ IF auth.currentUser = Null
           THEN /\ lastOp' = Returned("updateUserDisplayName", args, Null, 0)
                /\ requests' = <<>>
                /\ UNCHANGED auth
           ELSE IF ~IsValidString(displayName)
           THEN /\ lastOp' = Rejected("updateUserDisplayName", args,
                                      "Le nom d'affichage ne peut pas etre vide")
                /\ requests' = <<>>
                /\ UNCHANGED auth
           ELSE /\ requests' = sent
                /\ lastOp' = Outcome("updateUserDisplayName", args, sent,
                                     "Echec de la mise a jour du nom d'affichage : ",
                                     Undefined)
                /\ auth' = IF sent[1].ok
                           THEN [auth EXCEPT !.accounts =
                                   WithDisplayName(@, auth.currentUser.s, displayName)]
                           ELSE auth

\* a transaction function of the caller: the writes it makes through its handle
TransactionFn(writes) == [t |-> "function", writes |-> writes]

\* the answer of the backend to runTransaction(db, transactionFn)
TransactionAnswer(transactionFn, resp) ==
    IF Commits(store, transactionFn.writes) THEN resp ELSE BackendFail("not-found")

RunFsTransaction(transactionFn, resp) ==
    LET args == [transactionFn |-> transactionFn]
    IN  /\ UNCHANGED <<mock, now, listener, pages, upload, screen, docListener, files, auth>>
        /\ IF TypeOf(transactionFn) # "function"
           THEN /\ lastOp' = Rejected("runFsTransaction", args,
                                      "Une fonction de transaction doit etre fournie")
                /\ requests' = <<>>
                /\ UNCHANGED <<store, lastWrite>>
           ELSE LET sent == Sent(<<"runTransaction">>,
                                 <<TransactionAnswer(transactionFn, resp)>>)
                IN  /\ requests' = sent
                    /\ lastOp' = Outcome("runFsTransaction", args, sent,
                                         "Echec de la transaction : ", Undefined)
                    /\ IF sent[1].ok
                       THEN /\ store' = Commit(store, transactionFn.writes)
                            /\ lastWrite' = Wrote("runFsTransaction", <<>>, FALSE)
                       ELSE UNCHANGED <<store, lastWrite>>

UploadFile(path, fileOrBlob, r1, r2) ==
    LET args == [path |-> path, fileOrBlob |-> fileOrBlob]
        sent == Sent(<<"uploadBytes", "getDownloadURL">>, <<r1, r2>>)
    IN  /\ UNCHANGED <<mock, store, now, lastWrite, listener, pages, upload, screen, docListener,
                       auth>>
        /\ IF ~IsValidString(path)
           THEN /\ lastOp' = Rejected("uploadFile", args, "Chemin de stockage invalide")
                /\ requests' = <<>>
                /\ UNCHANGED files
           ELSE IF ~IsFileOrBlob(fileOrBlob)
           THEN /\ lastOp' = Rejected("uploadFile", args, "Un fichier ou Blob est requis")
                /\ requests' = <<>>
                /\ UNCHANGED files
           ELSE /\ requests' = sent
                /\ lastOp' = Outcome("uploadFile", args, sent,
                                     "Echec du telechargement du fichier : ", path)
                /\ files' = IF sent[1].ok THEN files \cup {path.s} ELSE files

(***************************************************************************)
(* SpecAuth: the auth facade on one well-formed and one malformed email,   *)
(* runFsTransaction and uploadFile, every backend request answered either  *)
(* way.                                                                    *)
(***************************************************************************)
GoodEmail == StrV(<<"a", "@", "b", ".", "c">>)

AuthEmails == {GoodEmail, StrV(<<"a", "@", "b">>)}

Passwords == {StrV(<<"p">>), StrV(<<" ">>)}

DisplayNames == {Undefined, StrV(<<"n">>), StrV(<<" ">>)}

TransactionFns ==
    {Undefined, TransactionFn(<<>>), TransactionFn(<<SetOp(Doc1, PlainObject, Undefined)>>),
     TransactionFn(<<UpdateOp(Doc1, Obj((FieldA :> 2)))>>)}

NextAuth ==
    \/ Idle /\ \E e \in AuthEmails, p \in Passwords, d \in DisplayNames, r1, r2 \in Responses :
                  SignUpWithEmail(e, p, d, r1, r2)
    \/ Idle /\ \E e \in AuthEmails, p \in Passwords, r \in Responses :
                  SignInWithEmail(e, p, r)
    \/ Idle /\ \E r \in Responses : Logout(r)
    \/ Idle /\ \E e \in AuthEmails, r \in Responses : SendReset(e, r)
    \/ Idle /\ \E d \in DisplayNames, r \in Responses : UpdateUserDisplayName(d, r)
    \/ Idle /\ \E f \in TransactionFns, r \in Responses : RunFsTransaction(f, r)
    \/ Idle /\ \E q \in {PathName, StrV(<<" ">>)}, f \in {File, Null}, r1, r2 \in Responses :
                  UploadFile(q, f, r1, r2)
    \/ Settle /\ Apart

SpecAuth == Init /\ [][NextAuth]_vars

\* C15: no facade function retries or recovers locally. Within one invocation
\* each backend request is sent at most once, and after the first backend
\* failure the invocation sends no further request and fails outward to its
\* caller.
C15_NoRetryNoRecovery ==
    [][ (lastOp' # lastOp /\ lastOp'.name # "none")
        => /\ \A i, j \in 1..Len(requests') :
                i # j => requests'[i].request # requests'[j].request
           /\ \A i \in 1..Len(requests') :
                ~requests'[i].ok
                  => /\ i = Len(requests')
                     /\ lastOp'.outcome = "failed"
                     /\ lastOp'.failed = requests'[i].msg
                     /\ lastOp'.error.msg = requests'[i].msg
           /\ lastOp'.calls = Len(requests')
      ]_vars

\* uploadFile whose uploadBytes failed: it did not ask for the download URL
C15_Witness ==
    /\ lastOp.name = "uploadFile" /\ lastOp.outcome = "failed"
    /\ Len(requests) = 1
    /\ requests[1].request = "uploadBytes" /\ ~requests[1].ok

(***************************************************************************)
(* The task and the promise of uploadFileWithProgress, checked under       *)
(* SpecUpload.                                                             *)
(***************************************************************************)
\* the step is a call of uploadFileWithProgress
UploadCalled == lastOp' # lastOp /\ lastOp'.name = "uploadFileWithProgress"

\* C16: uploadFileWithProgress refuses an input that is neither a File nor a
\* Blob before any upload starts; otherwise it returns the task with a promise
\* that settles exactly once: it resolves with the download URL only after the
\* task has completed, and rejects when the upload fails or the URL lookup
\* fails; the progress callback, when one was given, is called on each state
\* change with the bytes transferred and the total.
C16_UploadPromiseSettlesOnce ==
    [][ /\ (UploadCalled /\ ~IsFileOrBlob(lastOp'.args.fileOrBlob))
           => lastOp'.outcome = "invalid" /\ lastOp'.calls = 0 /\ upload' = upload
        /\ (UploadCalled /\ lastOp'.outcome = "ok")
           => upload'.state = "running" /\ upload'.promise = "pending"
        /\ ~UploadCalled =>
             /\ upload.promise \in {"resolved", "rejected"}
                  => /\ upload'.promise = upload.promise
                     /\ upload'.url = upload.url
                     /\ upload'.error = upload.error
             /\ (upload.promise = "pending" /\ upload'.promise = "resolved")
                  => upload.state = "success" /\ upload'.url
             /\ (upload.state = "running" /\ upload'.state = "error")
                  => upload'.promise = "rejected"
             /\ (upload.state = "success" /\ upload.promise = "pending" /\ upload' # upload)
                  => \/ upload'.promise = "resolved" /\ upload'.url
                     \/ upload'.promise = "rejected" /\ ~upload'.url
             /\ (upload'.progress = upload.progress + 1 /\ upload.onProgress)
                  => /\ upload'.notified = upload.notified + 1
                     /\ upload'.notice.transferred = upload'.event.bytesTransferred
                     /\ upload'.notice.total = upload'.event.totalBytes
      ]_vars

\* the progress callback was called for a second event, and the promise resolved
\* once the task had completed
C16_Witness ==
    /\ upload.promise = "resolved" /\ upload.url /\ upload.state = "success"
    /\ upload.onProgress /\ upload.notified = 2
    /\ upload.notice.transferred = 2 /\ upload.notice.total = 2

(***************************************************************************)
(* Two listeners side by side, checked under SpecListeners.                *)
(***************************************************************************)
\* the backend has a snapshot the listener l has not been handed yet
Due(l) == l.state = "active" /\ (~l.fired \/ Watched(l) # l.docs)

\* the documents of the collection coll are the same before and after the step
Untouched(coll) ==
    \A k \in (DOMAIN store) \cup (DOMAIN store') :
        k[1] = coll => k \in DOMAIN store /\ k \in DOMAIN store' /\ store'[k] = store[k]

BothActive == listener.state = "active" /\ docListener.state = "active"

\* C17: two active listeners on different data are independent. A change to
\* the data one of them watches makes only that one's callback due; when both
\* are due either callback may run first; a callback of one leaves the other as
\* it is, and calling the unsubscribe function of one neither stops the other
\* nor changes what it is to be handed.
C17_ListenersIndependent ==
    [][ /\ (BothActive /\ store' # store /\ Untouched(Users))
           => listener' = listener /\ Due(listener)' = Due(listener)
        /\ (BothActive /\ store' # store /\ Untouched(Properties))
           => docListener' = docListener /\ Due(docListener)' = Due(docListener)
        /\ (BothActive /\ Due(listener) /\ Due(docListener)
              /\ listener.callbacks < MaxCallbacks /\ docListener.callbacks < MaxCallbacks)
           => ENABLED DeliverSnapshot /\ ENABLED DeliverDocument
        /\ listener'.callbacks # listener.callbacks
           => docListener' = docListener /\ Due(docListener)' = Due(docListener)
        /\ docListener'.callbacks # docListener.callbacks
           => listener' = listener /\ Due(listener)' = Due(listener)
        /\ (BothActive /\ listener'.unsubscribed)
           => /\ docListener' = docListener /\ Due(docListener)' = Due(docListener)
              /\ (Due(docListener) /\ docListener.callbacks < MaxCallbacks)
                   => (ENABLED DeliverDocument)'
        /\ (BothActive /\ docListener'.unsubscribed)
           => /\ listener' = listener /\ Due(listener)' = Due(listener)
              /\ (Due(listener) /\ listener.callbacks < MaxCallbacks)
                   => (ENABLED DeliverSnapshot)'
      ]_vars

\* the document listener has been handed two snapshots after the collection
\* listener, which had been handed one, was unsubscribed
C17_Witness ==
    /\ listener.state = "stopped" /\ listener.callbacks = 1
    /\ docListener.state = "active" /\ docListener.callbacks = 2
    /\ Watched(listener) # listener.docs

(***************************************************************************)
(* SpecMock: the evaluation of the mock data module, one loop iteration a  *)
(* step, Math.random() drawn anew at each call.                            *)
(***************************************************************************)
\* Math.random() returns one of the fractions 0/Grain .. (Grain - 1)/Grain
Grain == 4

Draws == 0..(Grain - 1)

\* the upper bound of the loop: for (let i = 2; i <= 40; i++)
LastIndex == 40

\* i.toString(): the decimal digits of a positive integer below 100
toStringUnits(i) == <<Digit(i % 10)>>

toString(i) == IF i < 10 THEN <<Digit(i)>> ELSE <<Digit(i \div 10), Digit(i % 10)>>

\* Math.ceil(r * n) for the draw r
RandomCeil(r, n) == (r * n + Grain - 1) \div Grain

\* Math.floor(Math.random() * n) for the draw r
RandomFloor(r, n) == (r * n) \div Grain

\* one iteration of the loop: mockUsers.push({ uid: i.toString(), ... })
GenerateUser(r1, r2, r3) ==
    /\ ~mock.loaded
    /\ mock.i <= LastIndex
    /\ mock' = [mock EXCEPT
                  !.uids = Append(@, toString(mock.i)),
                  !.pushed = [uid |-> toString(mock.i),
                              etat |-> RandomFloor(r1, 3),
                              statut |-> RandomFloor(r2, 3),
                              typeUsersId |-> RandomFloor(r3, 3) + 1],
                  !.i = @ + 1]
    /\ UNCHANGED <<store, now, lastOp, listener, pages, upload, lastWrite, screen,
                   docListener, auth, requests, files>>

\* the loop condition fails: the module goes on to its other exports
LoopEnds ==
    /\ ~mock.loaded
    /\ mock.i > LastIndex
    /\ mock' = [mock EXCEPT !.loaded = TRUE]
    /\ UNCHANGED <<store, now, lastOp, listener, pages, upload, lastWrite, screen,
                   docListener, auth, requests, files>>

NextMock ==
    \/ \E r1, r2, r3 \in Draws : GenerateUser(r1, r2, r3)
    \/ LoopEnds

SpecMock == Init /\ [][NextMock]_vars

\* the decimal numerals of 2..40, written out
Numerals ==
    {<<d>> : d \in {"2", "3", "4", "5", "6", "7", "8", "9"}}
    \cup {<<t, d>> : t \in {"1", "2", "3"},
                     d \in {"0", "1", "2", "3", "4", "5", "6", "7", "8", "9"}}
    \cup {<<"4", "0">>}

\* C18: the mock user fixture holds exactly 40 users: the hand-written user of
\* uid '1' and 39 generated users of uids '2'..'40', all uids distinct; every
\* generated user has typeUsersId in {1, 2, 3} and statut in {0, 1, 2}, whatever
\* the random draws.
C18_FortyMockUsers ==
    /\ Len(mock.uids) > 1
         => mock.pushed.typeUsersId \in {1, 2, 3} /\ mock.pushed.statut \in {0, 1, 2}
    /\ mock.uids[1] = <<"1">>
    /\ \A j, k \in 1..Len(mock.uids) : j # k => mock.uids[j] # mock.uids[k]
    /\ mock.loaded
         => /\ Len(mock.uids) = 40
            /\ {mock.uids[k] : k \in 2..40} = Numerals
            /\ Cardinality(Numerals) = 39

\* the module is loaded and the user pushed last drew the largest values
C18_Witness ==
    /\ mock.loaded
    /\ mock.pushed = [uid |-> <<"4", "0">>, etat |-> 2, statut |-> 2, typeUsersId |-> 3]

(***************************************************************************)
(* SpecAuthArgs: signUpWithEmail, signInWithEmail and sendReset called     *)
(* with every string of up to MaxEmail characters among a, @, . and the    *)
(* space as email, while the auth service holds no account and refuses to  *)
(* create one.                                                             *)
(***************************************************************************)
MaxEmail == 6

EmailStrings == {StrV(e) : e \in SeqsOver({"a", "@", ".", " "}, MaxEmail)}

PasswordStrings == {StrV(<<>>), StrV(<<" ">>), StrV(<<"p">>)}

NextAuthArgs ==
    \/ Idle /\ \E e \in EmailStrings, p \in PasswordStrings :
                  SignUpWithEmail(e, p, Undefined, BackendFail("unavailable"), BackendOk)
    \/ Idle /\ \E e \in EmailStrings, p \in PasswordStrings : SignInWithEmail(e, p, BackendOk)
    \/ Idle /\ \E e \in EmailStrings, r \in Responses : SendReset(e, r)
    \/ Settle /\ Apart

SpecAuthArgs == Init /\ [][NextAuthArgs]_vars

\* s has the shape local@domain.tld: no white space, one @ with text before it,
\* and after the @ a dot with text on both its sides
HasEmailShape(s) ==
    LET ats == {i \in 1..Len(s) : s[i] = "@"}
    IN  /\ \A i \in 1..Len(s) : s[i] \notin {" ", "\t", "\n"}
        /\ Cardinality(ats) = 1
        /\ \E at \in ats :
              /\ at > 1
              /\ \E dot \in (at + 2)..(Len(s) - 1) : s[dot] = "."

\* C19: signUpWithEmail, signInWithEmail and sendReset fail with a validation
\* error, the auth service not called, when the email has not the shape
\* local@domain.tld (no white space, one @, a dot inside what follows it);
\* signUpWithEmail and signInWithEmail fail likewise when the password is empty
\* or white space only.
C19_BadEmailOrPasswordRefused ==
    /\ (/\ lastOp.name \in {"signUpWithEmail", "signInWithEmail", "sendReset"}
        /\ ~HasEmailShape(lastOp.args.email.s))
       => RejectedEarly /\ requests = <<>>
    /\ (/\ lastOp.name \in {"signUpWithEmail", "signInWithEmail"}
        /\ Blank(lastOp.args.password))
       => RejectedEarly /\ requests = <<>>

\* signInWithEmail refused an email whose domain has no dot, the backend not called
C19_Witness ==
    /\ lastOp.name = "signInWithEmail"
    /\ lastOp.args.email = StrV(<<"a", "@", "a">>)
    /\ lastOp.args.password = StrV(<<"p">>)
    /\ lastOp.outcome = "invalid" /\ lastOp.error = Invalid("Format d'email invalide")
    /\ requests = <<>>

(***************************************************************************)
(* SpecIds: the reading functions and the two listeners on a collection    *)
(* Users whose documents d1 and d2, when stored, hold a field a or a field *)
(* named id.                                                               *)
(***************************************************************************)
\* the fields a stored document may hold
StoredFields == {(FieldA :> 1), (IdKey :> StrV(<<"x">>)), (IdKey :> StrV(Doc2)) @@ (FieldA :> 1)}

\* the collection Users holding d1 with f1 and d2 with f2 (NoFields: not stored)
UsersHolding(f1, f2) ==
    [k \in {<<Users, Doc1>> : x \in {f1} \ {NoFields}}
           \cup {<<Users, Doc2>> : x \in {f2} \ {NoFields}} |->
        IF k[2] = Doc1 THEN f1 ELSE f2]

InitIds ==
    /\ \E f1, f2 \in StoredFields \cup {NoFields} : store = UsersHolding(f1, f2)
    /\ now = 1
    /\ lastOp = NoOp
    /\ listener = NoListener
    /\ pages = NoPages
    /\ upload = NoUpload
    /\ lastWrite = NoWrite
    /\ screen = NoScreen
    /\ docListener = NoListener
    /\ auth = NoAuth
    /\ requests = <<>>
    /\ files = {}
    /\ mock = HandWritten

NextIds ==
    \/ Idle /\ \E d \in {Doc1, Doc2}, r \in Responses : GetDocumentById(UsersName, StrV(d), r)
          /\ Apart
    \/ Idle /\ \E r \in Responses : GetCollection(UsersName, r) /\ Apart
    \/ Idle /\ \E r \in Responses :
                  QueryCollection([collectionName |-> UsersName, conditions |-> <<>>,
                                   orders |-> <<>>, pageSize |-> Undefined,
                                   startAfterDoc |-> Undefined], r) /\ Apart
    \/ Idle /\ ListenToCollection(UsersName, NoOptions, Fn, Fn, FALSE) /\ Apart
    \/ Idle /\ ListenToDocument(UsersName, StrV(Doc1), Fn, Fn)
          /\ UNCHANGED <<screen, auth, requests, files, mock>>
    \/ DeliverSnapshot /\ Apart
    \/ DeliverDocument /\ UNCHANGED <<screen, auth, requests, files, mock>>
    \/ Unsubscribe /\ Apart
    \/ UnsubscribeDocument /\ UNCHANGED <<screen, auth, requests, files, mock>>
    \/ Settle /\ Apart

SpecIds == InitIds /\ [][NextIds]_vars

\* the records of the list are those of the documents of Users, one each, the id
\* of each being the identifier of its document
OnePerDocument(records) ==
    /\ Len(records) = Cardinality(IdsOf(Users))
    /\ {records[i][IdKey] : i \in 1..Len(records)} = {StrV(d) : d \in IdsOf(Users)}

\* C20: every record returned by getDocumentById, getCollection and
\* queryCollection, and every record handed to the callbacks of
\* listenToCollection and listenToDocument, has for id the identifier of the
\* stored document it was read from, whatever the fields of that document, a
\* field named id included.
C20_RecordsCarryDocumentId ==
    /\ (lastOp.name = "getDocumentById" /\ lastOp.outcome = "ok" /\ lastOp.result # Null)
       => lastOp.result.f[IdKey] = lastOp.args.id
    /\ (lastOp.name = "getCollection" /\ lastOp.outcome = "ok")
       => OnePerDocument(lastOp.result)
    /\ (lastOp.name = "queryCollection" /\ lastOp.outcome = "ok")
       => OnePerDocument(lastOp.result.data)
    /\ listener.fired => OnePerDocument(listener.docs)
    /\ (docListener.fired /\ docListener.docs # Null)
       => docListener.docs.f[IdKey] = StrV(docListener.id)

(***************************************************************************)
(* updateUserDisplayName, checked under SpecAuth.                          *)
(***************************************************************************)
\* C21: updateUserDisplayName called with an empty or white-space-only name
\* fails with a validation error and updates no profile, a user being signed in
\* or not; called with a valid name while nobody is signed in it returns null
\* without a backend call.
C21_BlankDisplayNameRefused ==
    lastOp.name = "updateUserDisplayName" =>
        /\ Blank(lastOp.args.displayName)
             => RejectedEarly /\ requests = <<>>
        /\ (IsValidString(lastOp.args.displayName) /\ auth.currentUser = Null)
             => /\ lastOp.outcome = "ok" /\ lastOp.result = Null
                /\ lastOp.calls = 0 /\ requests = <<>>

(***************************************************************************)
(* The status actions of UserManagement, checked under SpecScreen.         *)
(***************************************************************************)
\* the users list shows, for each user whose document stores a statut, that statut
AgreesWithBackend ==
    \A i \in 1..Len(screen.users) :
        LET key == <<Users, screen.users[i].uid.s>>
        IN  (key \in DOMAIN store /\ statut \in DOMAIN store[key])
               => screen.users[i].statut = store[key][statut]

\* C22: when status actions on two different users are started before either
\* backend update has completed and both updates succeed, the users list
\* afterwards shows the new statut of both: once no action is in flight the list
\* agrees with the backend on every user acted on.
C22_NoLostUpdate ==
    (screen.loaded /\ screen.running = {}) => AgreesWithBackend

\* C23: while a status action on the user u is in flight, its updateDocument
\* call not yet settled, actionLoading is the uid of u, so that the buttons of u
\* stay disabled and no second action on u can be started, whatever actions are
\* started or completed on other users meanwhile.
C23_ActionLoadingWhileInFlight ==
    \A p \in screen.running :
        p.kind = "action" => screen.actionLoading = p.uid

\* C24: handleUserAction changes the users list only after the backend
\* updateDocument call has succeeded, and then only the statut of the targeted
\* user; on a failed call, on 'edit' and on an unknown action the list is left
\* as it was; and whenever the handler finishes actionLoading is null.
C24_OnlyTargetedStatutChanges ==
    [][ /\ \A p \in screen.running \ screen'.running :
             p.kind = "action" =>
                /\ screen'.actionLoading = Null
                /\ lastOp'.outcome # "ok" => screen'.users = screen.users
                /\ lastOp'.outcome = "ok" =>
                      /\ Len(screen'.users) = Len(screen.users)
                      /\ \A i \in 1..Len(screen.users) :
                            /\ screen'.users[i].uid = screen.users[i].uid
                            /\ screen.users[i].uid # p.uid
                                 => screen'.users[i] = screen.users[i]
        /\ (screen.loaded /\ screen'.running \ screen.running # {})
             => screen'.users = screen.users
        /\ (screen.loaded /\ screen'.running = screen.running)
             => screen'.users = screen.users
      ]_vars

\* C25: approve writes statut 1, shown as 'actif'; ban writes statut 0, shown
\* as 'banni'; reject writes statut 2, whose label 'en_attente' is the one that
\* makes the approve and reject buttons appear, so that a rejected pending user
\* is still pending and is offered approve and reject again; no status action
\* writes a statut outside {0, 1, 2}.
C25_StatusActionsWriteKnownStatut ==
    [][ \A p \in screen.running \ screen'.running :
          (p.kind = "action" /\ lastOp'.outcome = "ok") =>
             LET written == store'[<<Users, p.uid.s>>][statut]
                 shown == screen'.users[FindUser(screen'.users, p.uid)]
             IN  /\ written \in {0, 1, 2}
                 /\ shown.statut = written
                 /\ p.action = "approve"
                      => written = 1 /\ GetStatusLabel(written) = "actif"
                 /\ p.action = "ban"
                      => written = 0 /\ GetStatusLabel(written) = "banni"
                 /\ p.action = "reject"
                      => /\ written = 2 /\ GetStatusLabel(written) = "en_attente"
                         /\ Offered(screen.users[FindUser(screen.users, p.uid)], "approve")'
                         /\ Offered(screen.users[FindUser(screen.users, p.uid)], "reject")'
      ]_vars

\* a pending user has been rejected and is shown pending again
C25_Witness ==
    /\ lastOp.name = "updateDocument" /\ lastOp.outcome = "ok"
    /\ lastOp.args.data = Obj((statut :> 2))
    /\ screen.running = {}
    /\ \E i \in 1..Len(screen.users) :
          /\ screen.users[i].uid = lastOp.args.id
          /\ screen.users[i].statut = 2
          /\ Offered(screen.users[i], "reject")

(***************************************************************************)
(* The add form of UserManagement, checked under SpecForms.                *)
(***************************************************************************)
\* C26: the add-user form persists the new user with updateDocument, an update
\* of an existing document, never with addDocument or setDocument; submitted
\* for a uid that has no document in Users, it creates no document, leaves the
\* users list as it was, leaves the modal open and sets the error.
C26_AddFormOnlyUpdates ==
    [][ \A p \in screen.running \ screen'.running :
          p.kind = "add" =>
             /\ lastOp'.name = "updateDocument"
             /\ lastOp'.args.collectionName = UsersName /\ lastOp'.args.id = p.uid
             /\ DOMAIN store' = DOMAIN store
             /\ ~Exists(DocKey(UsersName, p.uid)) =>
                   /\ lastOp'.outcome = "failed"
                   /\ store' = store
                   /\ screen'.users = screen.users
                   /\ screen'.showAddModal = screen.showAddModal
                   /\ screen'.newUser = screen.newUser
                   /\ screen'.error # ""
      ]_vars

\* the form was submitted for a uid without document in Users, its modal open
C26_Witness ==
    /\ lastOp.name = "updateDocument" /\ lastOp.outcome = "failed"
    /\ lastOp.failed = "not-found"
    /\ uid \in DOMAIN lastOp.args.data.f
    /\ ~Exists(DocKey(UsersName, lastOp.args.id))
    /\ screen.loaded /\ screen.showAddModal /\ screen.error # ""
    /\ screen.running = {}

(***************************************************************************)
(* signUpWithEmail and its two requests, checked under SpecAuth.           *)
(***************************************************************************)
\* signUpWithEmail was called and passed its validation
SignUpSent ==
    /\ lastOp' # lastOp /\ lastOp'.name = "signUpWithEmail"
    /\ lastOp'.outcome # "invalid"

\* C27: signUpWithEmail called with a valid non-blank displayName creates the
\* account first and issues the profile update second; when the creation
\* succeeds and the profile update fails, the call fails with the sign-up error
\* while the created account remains in the backend.
C27_SignUpFailureKeepsAccount ==
    [][ (SignUpSent /\ IsValidString(lastOp'.args.displayName)) =>
          LET email == lastOp'.args.email.s
          IN  /\ requests'[1].request = "createUserWithEmailAndPassword"
              /\ requests'[1].ok
                   => /\ Len(requests') = 2
                      /\ requests'[2].request = "updateProfile"
                      /\ email \in DOMAIN auth'.accounts
              /\ ~requests'[1].ok => Len(requests') = 1 /\ auth' = auth
              /\ (requests'[1].ok /\ ~requests'[2].ok)
                   => /\ lastOp'.outcome = "failed"
                      /\ lastOp'.error.prefix = "Echec de l'inscription : "
                      /\ lastOp'.error.msg = requests'[2].msg
                      /\ email \notin DOMAIN auth.accounts
                      /\ email \in DOMAIN auth'.accounts
                      /\ auth'.accounts[email].displayName = Null
      ]_vars

\* a sign-up failed at its profile update and left its account behind
C27_Witness ==
    /\ lastOp.name = "signUpWithEmail" /\ lastOp.outcome = "failed"
    /\ IsValidString(lastOp.args.displayName)
    /\ Len(requests) = 2 /\ requests[1].ok
    /\ requests[2].request = "updateProfile" /\ ~requests[2].ok
    /\ lastOp.args.email.s \in DOMAIN auth.accounts

(***************************************************************************)
(* fetchUsers with every field of its users, checked under SpecFetch on    *)
(* documents whose values are JavaScript values.                           *)
(***************************************************************************)
False == [t |-> "boolean", b |-> FALSE]

etat == <<"e", "t", "a", "t">>

typeUsersId == <<"t", "y", "p", "e", "U", "s", "e", "r", "s", "I", "d">>

notificationPrefs ==
    <<"n", "o", "t", "i", "f", "i", "c", "a", "t", "i", "o", "n", "P", "r", "e", "f", "s">>

nom == <<"n", "o", "m">>

messages == <<"m", "e", "s", "s", "a", "g", "e", "s">>

visits == <<"v", "i", "s", "i", "t", "s">>

\* the string fields of a user: nom, prenom, email, telephone, photoProfil,
\* cniNumber, CNIDateDelivrer, cniExpirationDate, cniRecto, cniVerso, addresse,
\* fcmToken, lastUpdated
StringFields ==
    {nom, <<"p", "r", "e", "n", "o", "m">>, <<"e", "m", "a", "i", "l">>,
     <<"t", "e", "l", "e", "p", "h", "o", "n", "e">>,
     <<"p", "h", "o", "t", "o", "P", "r", "o", "f", "i", "l">>,
     <<"c", "n", "i", "N", "u", "m", "b", "e", "r">>,
     <<"C", "N", "I", "D", "a", "t", "e", "D", "e", "l", "i", "v", "r", "e", "r">>,
     <<"c", "n", "i", "E", "x", "p", "i", "r", "a", "t", "i", "o", "n", "D", "a", "t", "e">>,
     <<"c", "n", "i", "R", "e", "c", "t", "o">>, <<"c", "n", "i", "V", "e", "r", "s", "o">>,
     <<"a", "d", "d", "r", "e", "s", "s", "e">>, <<"f", "c", "m", "T", "o", "k", "e", "n">>,
     <<"l", "a", "s", "t", "U", "p", "d", "a", "t", "e", "d">>}

\* the notification preferences: messages, newProperties, payments,
\* reservations, visits
PrefFields ==
    {messages, <<"n", "e", "w", "P", "r", "o", "p", "e", "r", "t", "i", "e", "s">>,
     <<"p", "a", "y", "m", "e", "n", "t", "s">>,
     <<"r", "e", "s", "e", "r", "v", "a", "t", "i", "o", "n", "s">>, visits}

\* obj.f for the fields obj of an object: undefined when it has no such field
Prop(obj, f) == IF f \in DOMAIN obj THEN obj[f] ELSE Undefined

\* v?.f: undefined for a null or undefined v, and for a v that is no object
OptionalProp(v, f) == IF v.t = "object" THEN Prop(v.f, f) ELSE Undefined

\* v ?? d
Coalesce(v, d) == IF v.t \in {"null", "undefined"} THEN d ELSE v

\* v || ''
OrEmpty(v) == IF Truthy(v) THEN v ELSE StrV(<<>>)

\* the user fetchUsers makes of the record user of getCollection
MappedUser(user) ==
    [f \in {uid, etat, statut, typeUsersId, notificationPrefs} \cup StringFields |->
        CASE f = uid -> Prop(user, IdKey)
          [] f = etat -> Coalesce(Prop(user, etat), Num(1))
          [] f = statut -> Coalesce(Prop(user, statut), Num(1))
          [] f = typeUsersId -> Coalesce(Prop(user, typeUsersId), Num(3))
          [] f = notificationPrefs ->
               Obj([p \in PrefFields |->
                      Coalesce(OptionalProp(Prop(user, notificationPrefs), p), True)])
          [] OTHER -> OrEmpty(Prop(user, f))]

\* fetchUsers: the users of getCollection('Users'), or the error it threw
FetchUsers(resp) ==
    /\ UNCHANGED <<store, now, lastWrite, listener, pages, upload>>
    /\ lastOp' =
         IF ~resp.ok
         THEN Failed("fetchUsers", <<>>,
                     Wrapped("Echec de la recuperation de la collection : ", resp.msg),
                     resp.msg, 1)
         ELSE LET users == DocsOf(RunQuery(Users, <<>>, <<>>, 0, Null))
              IN  Returned("fetchUsers", <<>>,
                           [i \in 1..Len(users) |-> MappedUser(users[i])], 1)

(***************************************************************************)
(* SpecFetch: fetchUsers on a collection Users of one document d1, whose   *)
(* fields are absent, null, or hold a value.                               *)
(***************************************************************************)
\* the document holding pick[f] in each field f, and no field f when pick[f] is
\* undefined
DocOf(pick) == [f \in {g \in DOMAIN pick : pick[g].t # "undefined"} |-> pick[f]]

UserDocs ==
    {DocOf((statut :> s) @@ (etat :> e) @@ (typeUsersId :> r) @@ (nom :> n)
           @@ (notificationPrefs :> p) @@ (IdKey :> i)) :
        s \in {Undefined, Null, Num(0), Num(2)},
        e \in {Undefined, Num(0)},
        r \in {Undefined, Null, Num(1)},
        n \in {Undefined, Null, StrV(<<>>), StrV(<<"n">>)},
        p \in {Undefined, Null, Obj(NoFields), Obj((messages :> False)),
               Obj((messages :> Null) @@ (visits :> False))},
        i \in {Undefined, StrV(<<"x">>)}}

InitFetch ==
    /\ \E d \in UserDocs : store = (<<Users, Doc1>> :> d)
    /\ now = 1
    /\ lastOp = NoOp
    /\ listener = NoListener
    /\ pages = NoPages
    /\ upload = NoUpload
    /\ lastWrite = NoWrite
    /\ screen = NoScreen
    /\ docListener = NoListener
    /\ auth = NoAuth
    /\ requests = <<>>
    /\ files = {}
    /\ mock = HandWritten

NextFetch ==
    \/ Idle /\ \E r \in Responses : FetchUsers(r) /\ Apart
    \/ Settle /\ Apart

SpecFetch == InitFetch /\ [][NextFetch]_vars

\* the stored value of field f of the document, undefined when it has none
Stored(f) == Prop(store[<<Users, Doc1>>], f)

\* field f of the document is absent: not stored, or stored as null
Absent(v) == v.t \in {"null", "undefined"}

\* C28: fetchUsers maps each stored document to a user whose uid is the id of
\* the document; it keeps the stored numeric values as they are, statut 0, etat
\* 0 and notification preferences false included, and puts a default only in
\* place of an absent (null or undefined) field: statut 1, etat 1, typeUsersId
\* 3, true for every notification preference, and '' for an absent or empty
\* string field.
C28_FetchUsersDefaults ==
    (lastOp.name = "fetchUsers" /\ lastOp.outcome = "ok") =>
        /\ Len(lastOp.result) = 1
        /\ LET user == lastOp.result[1]
           IN  /\ user[uid] = StrV(Doc1)
               /\ user[statut] = IF Absent(Stored(statut)) THEN Num(1) ELSE Stored(statut)
               /\ user[etat] = IF Absent(Stored(etat)) THEN Num(1) ELSE Stored(etat)
               /\ user[typeUsersId] =
                    IF Absent(Stored(typeUsersId)) THEN Num(3) ELSE Stored(typeUsersId)
               /\ \A p \in PrefFields :
                    LET stored == OptionalProp(Stored(notificationPrefs), p)
                    IN  user[notificationPrefs].f[p] =
                          IF Absent(stored) THEN True ELSE stored
               /\ \A f \in StringFields :
                    user[f] = IF Absent(Stored(f)) THEN StrV(<<>>) ELSE Stored(f)

(***************************************************************************)
(* SpecRefs: the evaluation of the mock data module past its users: the    *)
(* loops that fill mockProperties, mockTransactions, mockContracts and     *)
(* mockMessages, one iteration a step, and mockStatistics.                 *)
(***************************************************************************)
\* for a reference Math.random() returns one of the fractions 0/RefGrain ..
\* (RefGrain - 1)/RefGrain; the draws followed are the least two, the middle one
\* and the greatest
RefGrain == 64

RefDraws == {0, 1, RefGrain \div 2, RefGrain - 1}

\* Math.ceil(Math.random() * n) + 1 + '' for the draw r
RandomIdCeil(r, n) == toString(((r * n + RefGrain - 1) \div RefGrain) + 1)

\* Math.floor(Math.random() * n) + 1 + '' for the draw r
RandomId(r, n) == toString(((r * n) \div RefGrain) + 1)

\* the upper bound of each loop
LoopBound(loop) ==
    CASE loop = "properties" -> 25
      [] loop = "transactions" -> 50
      [] loop = "contracts" -> 20
      [] loop = "messages" -> 150

\* the loop the module runs next
LoopAfter(loop) ==
    CASE loop = "properties" -> "transactions"
      [] loop = "transactions" -> "contracts"
      [] loop = "contracts" -> "messages"
      [] loop = "messages" -> "done"

\* the loop of mock is at one of its iterations
Iterating(loop) ==
    /\ mock.loaded
    /\ mock.loop = loop
    /\ mock.j <= LoopBound(loop)
    /\ UNCHANGED <<store, now, lastOp, listener, pages, upload, lastWrite, screen,
                   docListener, auth, requests, files>>

\* mockProperties.push({ id: i.toString(), ..., ownerId: ... })
GenerateProperty(r) ==
    /\ Iterating("properties")
    /\ mock' = [mock EXCEPT
                  !.properties = Append(@, toString(mock.j)),
                  !.record = [of |-> "properties", id |-> toString(mock.j),
                              ownerId |-> RandomId(r, 40)],
                  !.j = @ + 1]

\* mockTransactions.push({ ..., userId: ..., propertyId: ... })
GenerateTransaction(r1, r2) ==
    /\ Iterating("transactions")
    /\ mock' = [mock EXCEPT
                  !.pushes.transactions = @ + 1,
                  !.record = [of |-> "transactions", userId |-> RandomId(r1, 40),
                              propertyId |-> RandomId(r2, 25)],
                  !.j = @ + 1]

\* mockContracts.push({ ..., tenantId: ..., ownerId: ..., propertyId: ... })
GenerateContract(r1, r2, r3) ==
    /\ Iterating("contracts")
    /\ mock' = [mock EXCEPT
                  !.pushes.contracts = @ + 1,
                  !.record = [of |-> "contracts", tenantId |-> RandomId(r1, 40),
                              ownerId |-> RandomId(r2, 40),
                              propertyId |-> RandomId(r3, 25)],
                  !.j = @ + 1]

\* mockMessages.push({ ..., senderId: ..., receiverId: ... })
GenerateMessage(r1, r2) ==
    /\ Iterating("messages")
    /\ mock' = [mock EXCEPT
                  !.pushes.messages = @ + 1,
                  !.record = [of |-> "messages", senderId |-> RandomId(r1, 40),
                              receiverId |-> RandomId(r2, 40)],
                  !.j = @ + 1]

\* the condition of a loop fails: the module goes on to its next array, whose
\* loop starts from 1
NextLoop ==
    /\ mock.loaded
    /\ mock.loop # "done"
    /\ mock.j > LoopBound(mock.loop)
    /\ mock' = [mock EXCEPT !.loop = LoopAfter(mock.loop), !.j = 1]
    /\ UNCHANGED <<store, now, lastOp, listener, pages, upload, lastWrite, screen,
                   docListener, auth, requests, files>>

\* the counts of the mockStatistics literal
mockStatistics == [totalUsers |-> 40, totalProperties |-> 25, totalTransactions |-> 50]

NextRefs ==
    \/ \E r1, r2, r3 \in Draws : GenerateUser(r1, r2, r3)
    \/ LoopEnds
    \/ \E r \in RefDraws : GenerateProperty(r)
    \/ \E r1, r2 \in RefDraws : GenerateTransaction(r1, r2)
    \/ \E r1, r2, r3 \in RefDraws : GenerateContract(r1, r2, r3)
    \/ \E r1, r2 \in RefDraws : GenerateMessage(r1, r2)
    \/ NextLoop

SpecRefs == Init /\ [][NextRefs]_vars

\* the uids of mockUsers, and the ids of mockProperties
UidsOfUsers == {mock.uids[k] : k \in 1..Len(mock.uids)}

IdsOfProperties == {mock.properties[k] : k \in 1..Len(mock.properties)}

\* C29: whatever the random draws, every cross-reference of the generated mock
\* data refers to a generated record: Property.ownerId, Transaction.userId,
\* Contract.tenantId, Contract.ownerId, Message.senderId and Message.receiverId
\* are uids of mockUsers ('1'..'40'), Transaction.propertyId and
\* Contract.propertyId are ids of mockProperties ('1'..'25'), and totalUsers,
\* totalProperties and totalTransactions of mockStatistics are the lengths of
\* the generated arrays (40, 25, 50).
C29_CrossReferencesResolve ==
    /\ mock.loaded =>
         LET record == mock.record
         IN  /\ record.of = "properties" => record.ownerId \in UidsOfUsers
             /\ record.of = "transactions"
                  => record.userId \in UidsOfUsers /\ record.propertyId \in IdsOfProperties
             /\ record.of = "contracts"
                  => /\ record.tenantId \in UidsOfUsers /\ record.ownerId \in UidsOfUsers
                     /\ record.propertyId \in IdsOfProperties
             /\ record.of = "messages"
                  => record.senderId \in UidsOfUsers /\ record.receiverId \in UidsOfUsers
    /\ (mock.loaded /\ mock.loop = "done") =>
         /\ UidsOfUsers = {toString(k) : k \in 1..40}
         /\ IdsOfProperties = {toString(k) : k \in 1..25}
         /\ mockStatistics.totalUsers = Len(mock.uids)
         /\ mockStatistics.totalProperties = Len(mock.properties)
         /\ mockStatistics.totalTransactions = mock.pushes.transactions
         /\ Len(mock.uids) = 40 /\ Len(mock.properties) = 25
         /\ mock.pushes.transactions = 50

\* every array is filled, and the message pushed last is from the last user to
\* the first
C29_Witness ==
    /\ mock.loaded /\ mock.loop = "done"
    /\ mock.record.of = "messages"
    /\ mock.record.senderId = <<"4", "0">> /\ mock.record.receiverId = <<"1">>
    /\ mock.pushes = [transactions |-> 50, contracts |-> 20, messages |-> 150]

====
